---------------------------- MODULE Spec2Model ----------------------------
(***************************************************************************)
(* Model of the subagent-scheduler orchestration core:                     *)
(*   task-decomposer.js   (analyzeComplexity, decompose, buildDAG)         *)
(*   redis-concurrency.js (Redis-backed and in-memory slot controllers)    *)
(*   agent-registry.js / agent-router.js (registry, route, reRoute)        *)
(*   index.js             (executeMultiAgent, routeSubtasks, executeDAG,   *)
(*                         executeSingle)                                  *)
(*   result-aggregator    (aggregate, aggregateByDAG)                      *)
(* Each component has its own specification; the variables of the other    *)
(* components stay at their initial value.                                 *)
(***************************************************************************)
EXTENDS Integers, Sequences, FiniteSets, TLC

VARIABLES
  \* ---- task-decomposer.js
  maxSubtasks,     \* this.maxSubtasks of the decomposer
  text,            \* the task text, as the features the regexes read
  entry,           \* "decompose" | "buildDAG": the entry point called
  subtasks,        \* the subtask list handed to buildDAG
  graph,           \* buildDAG: adjacency lists
  inDegree,        \* buildDAG: remaining in-degree per id
  queue,           \* buildDAG: ids whose in-degree reached 0
  parallelGroups,  \* buildDAG: the groups pushed so far
  bpc,             \* position in decompose / buildDAG
  bres             \* what the call returned: "none" | "dag" | "cycle_detected"

VARIABLES
  \* ---- redis-concurrency.js
  ctrl,            \* "redis" | "local": the controller installed
  scen,            \* "acquire": callers of acquireSlot; "wait": callers of
                   \* waitForSlot; "single": callers of executeSingle
  ncall,           \* number of callers
  cbranch,         \* caller -> the branch it asks for
  ctask,           \* caller -> its task id
  cout,            \* caller -> what executeSingle returned
  slots,           \* branch -> set of task ids holding a slot
  cpc,             \* caller -> position
  cres,            \* caller -> what acquireSlot last returned
  now,             \* the clock, in polling intervals (500 ms)
  wstart,          \* caller -> startTime of waitForSlot
  wake,            \* caller -> time its sleep ends
  werr             \* caller -> the error waitForSlot threw

VARIABLES
  \* ---- agent-registry.js, agent-router.js, index.js (multi-agent execution)
  agents,          \* the registry: agents in registration order
  dag,             \* the DAG decompose returned
  retryOpt,        \* options.retry !== false
  mpc,             \* position in executeMultiAgent
  ri,              \* routeSubtasks: index of the loop iteration
  rphase,          \* routeSubtasks: "idle" | "calls" (awaiting Promise.all)
  rex,             \* routeSubtasks: the "executable" array of the iteration
  rk,              \* routeSubtasks: index in rex of the next call of route
  rpend,           \* ids whose call of route is suspended in fallbackRoute
  rcompleted,      \* routeSubtasks: its "completed" set
  routes,          \* routeSubtasks: subtask id -> route
  gi,              \* executeDAG: index of the group
  gphase,          \* executeDAG: "idle" | "running" (awaiting Promise.all)
  status,          \* subtask id -> state of its execution
  cur,             \* subtask id -> agent of its current route (0: none)
  results,         \* executeDAG: subtask id -> result ("none": no entry)
  completed,       \* executeDAG: its "completed" set
  mout,            \* what executeMultiAgent returned
  sinceHeartbeat,  \* agent -> health checks since its last heartbeat
  orphaned         \* <<subtask, agent>>: the agent was marked offline while
                   \* the subtask was running on it

buildVars == <<maxSubtasks, text, entry, subtasks, graph, inDegree, queue, parallelGroups, bpc, bres>>

slotVars == <<ctrl, scen, ncall, cbranch, ctask, cout, slots, cpc, cres, now, wstart, wake, werr>>

healthVars == <<sinceHeartbeat, orphaned>>

maVars == <<agents, dag, retryOpt, mpc, ri, rphase, rex, rk, rpend, rcompleted, routes, gi, gphase, status, cur,
           results, completed, mout, healthVars>>

\* RetryExecutor (index.js, lines 1894-2273)
VARIABLES
  rxCfg,          \* the options the executor was constructed with
  rxop,           \* the method that was called: "execute", "handleErrorByType"
  rxpc,           \* where the call stands
  ctxBranch,      \* context.branch of the invocation that is made next
  fromBranch,     \* currentBranch of the downgradeAndRetry call in progress
  attempt,        \* the local variable attempt
  lastErrorType,  \* context.lastErrorType (retryWithBackoff)
  multiplier,     \* options.multiplier of retryWithBackoff
  delay,          \* the duration of the sleep in progress, in ms
  rxlog,          \* what the executor has done: invocations, throws, sleeps
  rxres           \* what the call returned

retryVars == <<rxCfg, rxop, rxpc, ctxBranch, fromBranch, attempt, lastErrorType, multiplier,
               delay, rxlog, rxres>>

\* RetryExecutor: the checkpoints (index.js, lines 2206-2270)
VARIABLES
  checkpoints,    \* this.checkpoints: task id -> checkpoint (NoCheckpoint: no entry)
  rspc,           \* resumeFromCheckpoint: where each call stands
  rstask,         \* resumeFromCheckpoint: its taskId
  rsckpt,         \* resumeFromCheckpoint: the checkpoint it loaded
  rsres           \* resumeFromCheckpoint: what it returned

ckptVars == <<checkpoints, rspc, rstask, rsckpt, rsres>>

\* ExecutionMonitor (execution-monitor.js): the tasks it watches
VARIABLES
  mstatus,        \* task id -> task.status ("none": not registered)
  mend,           \* task id -> task.endTime (0: null)
  mretries,       \* task id -> task.retries
  mmax,           \* task id -> task.maxRetries
  mcancels,       \* task id -> 'task-cancelled' events emitted for it
  mnow            \* Date.now()

monVars == <<mstatus, mend, mretries, mmax, mcancels, mnow>>

\* FeishuCallbackHandler (feishu-callback), as called at index.js line 947
VARIABLES
  gkind,          \* the method that waits: "waitForReply", "sendConfirmAndWait"
  gpc,            \* where the wait stands
  gstart,         \* startTime of the wait, in seconds
  gnow,           \* Date.now(), in seconds
  gwake,          \* when the timer set by setTimeout is due
  greply,         \* the user has written into the chat since startTime
  gres,           \* what the promise settled with
  snext           \* what executeSingle does with it (lines 954-966 and 1051)

gateVars == <<gkind, gpc, gstart, gnow, gwake, greply, gres, snext>>

\* CommandQueue (command-queue.js)
VARIABLES
  qqueue,              \* this.queue: the ids of the tasks that wait
  currentTask,         \* this.currentTask (0: null)
  processing,          \* this.processing
  stats,               \* this.stats
  notificationHandler, \* this.notificationHandler ("none": null)
  qstatus,             \* task id -> task.status ("none": not enqueued)
  qprio,               \* task id -> task.priority
  qmax,                \* task id -> task.maxRetries
  qcreated,            \* task id -> the rank of task.createdAt (0: not enqueued)
  autoStart,           \* this.config.autoStart
  qstray,              \* task handler calls that lost the race against the timeout
  qretry,              \* task id -> task.retryCount
  qerror,              \* an 'error' event was emitted
  epc,                 \* task id -> where the enqueue call of the task stands
  apc,                 \* call of processQueue -> what it awaits
  atask                \* call of processQueue -> its task (0: none)

queueVars == <<qqueue, currentTask, processing, stats, notificationHandler, qstatus, qprio,
               qmax, qcreated, autoStart, qstray, qretry, qerror, epc, apc, atask>>

\* classifyTask (scheduler.js)
VARIABLES
  ftext,          \* the task text, as the features fastRules reads
  fpc,            \* where the call of classifyTask stands
  fres            \* the verdict it returned

classVars == <<ftext, fpc, fres>>

\* ResultAggregator (result-aggregator)
VARIABLES
  agStrategy,     \* options.strategy
  agResults,      \* the results handed to aggregate
  agpc,           \* where the caller stands
  agFirst,        \* what aggregate returned for the list
  agSecond        \* what aggregate returned for the list of that result

aggVars == <<agStrategy, agResults, agpc, agFirst, agSecond>>

\* SubagentScheduler.execute (index.js), the executions nested in one call
VARIABLES
  xstack,         \* the executeMultiAgent calls in progress, outermost first
  xpc             \* where the outermost call of execute stands

nestVars == <<xstack, xpc>>

coreVars == <<buildVars, slotVars, maVars, retryVars>>

\* the components that are not part of every specification
extVars == <<ckptVars, monVars, gateVars, queueVars, classVars, aggVars, nestVars>>

besidesCkpt == <<monVars, gateVars, queueVars, classVars, aggVars, nestVars>>

besidesMon == <<ckptVars, gateVars, queueVars, classVars, aggVars, nestVars>>

besidesGate == <<ckptVars, monVars, queueVars, classVars, aggVars, nestVars>>

besidesQueue == <<ckptVars, monVars, gateVars, classVars, aggVars, nestVars>>

besidesClass == <<ckptVars, monVars, gateVars, queueVars, aggVars, nestVars>>

besidesAgg == <<ckptVars, monVars, gateVars, queueVars, classVars, nestVars>>

besidesNest == <<ckptVars, monVars, gateVars, queueVars, classVars, aggVars>>

vars == <<buildVars, slotVars, maVars, retryVars, extVars>>

-----------------------------------------------------------------------------
(* Bounds *)

MaxNodes == 3      \* subtasks of a list handed to buildDAG directly
MaxNum   == 11     \* largest number written in a task text
MaxCallers == 5    \* concurrent callers of acquireSlot
MaxWaiters == 2    \* concurrent callers of waitForSlot
MaxTasks == 2      \* concurrent calls of executeSingle
MaxAgents == 2     \* agents registered
MaxFiles == 1      \* largest file count of a batch text that is executed
TimeoutTicks == 2  \* timeoutMs of waitForSlot, in polling intervals
MaxClock == 4      \* the clock stops here
MaxKeywords == 2   \* regexes of classifyError that one error message matches
MaxSaves == 2      \* saveCheckpoint calls for one task id without a removal
MaxResumers == 2   \* concurrent callers of resumeFromCheckpoint
MaxCancels == 2    \* cancellations of one task that take effect
MaxGateClock == 64 \* the clock of the confirmation wait stops here, in seconds
MaxQueued == 2     \* tasks handed to enqueue
MaxActs == 2       \* calls of processQueue in progress at once
MaxResults == 2    \* results handed to aggregate
MaxStray == 1      \* task handler calls that go on after their timeout
MaxAdmitted == 3   \* calls of executeSingle that ask for a slot of one tier
MaxDepth == 3      \* executeMultiAgent calls nested in one another

-----------------------------------------------------------------------------
(* Generic helpers *)

Range(s) == {s[i] : i \in 1..Len(s)}

Min(a, b) == IF a < b THEN a ELSE b

Max(a, b) == IF a > b THEN a ELSE b

RECURSIVE Concat(_)
Concat(ss) == IF ss = <<>> THEN <<>> ELSE Head(ss) \o Concat(Tail(ss))

Count(s, x) == Cardinality({i \in 1..Len(s) : s[i] = x})

-----------------------------------------------------------------------------
(* task-decomposer.js *)

NoText == [steps |-> FALSE, targets |-> FALSE, deep |-> FALSE, deps |-> FALSE,
           len |-> 0, num |-> -1, file |-> FALSE, fileNum |-> FALSE]

\* A task text, reduced to what analyzeComplexity and decompose read of it:
\* the four marker regexes, the length bucket (0: <= 200, 1: 201..500,
\* 2: > 500), the first number written in it (-1: none), whether it contains
\* "文件", and whether the first number is followed by "文件"
\* (the regex /(\d+)个?.*文件/ matches, and then captures that same number).
Texts ==
  {t \in [steps : BOOLEAN, targets : BOOLEAN, deep : BOOLEAN, deps : BOOLEAN,
          len : 0..2, num : -1..MaxNum, file : BOOLEAN, fileNum : BOOLEAN] :
     t.fileNum => (t.file /\ t.num >= 0)}

DefaultMaxSubtasks == 20

\* options.maxSubtasks, as handed to the constructor (0: not given)
MaxSubtasksOptions == {0, 2, 5}

\* the constructor, line 14: options.maxSubtasks || 20
configuredMaxSubtasks(option) == IF option = 0 THEN DefaultMaxSubtasks ELSE option

\* analyzeComplexity, lines 23-64, of a decomposer whose maxSubtasks is limit
analyzeComplexityWith(t, limit) ==
  LET estimated == 1 + (IF t.steps THEN 2 ELSE 0)
               + (IF t.targets THEN (IF t.num >= 0 THEN Min(t.num, 10) ELSE 3) ELSE 0)
               + (IF t.deep THEN 2 ELSE 0)
               + (IF t.deps THEN 1 ELSE 0)
      score == (IF t.len >= 1 THEN 2 ELSE 0) + (IF t.len >= 2 THEN 3 ELSE 0)
               + (IF t.steps THEN 2 ELSE 0) + (IF t.targets THEN 2 ELSE 0)
               + (IF t.deep THEN 2 ELSE 0) + (IF t.deps THEN 1 ELSE 0)
  IN [hasMultipleSteps   |-> t.steps,
      hasMultipleTargets |-> t.targets,
      hasDeepAnalysis    |-> t.deep,
      hasDependencies    |-> t.deps,
      estimatedSubtasks  |-> Min(estimated, limit),
      complexityScore    |-> score,
      shouldDecompose    |-> (score >= 3 \/ estimated > 2)]

\* analyzeComplexity of a decomposer constructed without options
analyzeComplexity(t) == analyzeComplexityWith(t, DefaultMaxSubtasks)

Subtask(id, dependsOn, caps) ==
  [id |-> id, dependsOn |-> dependsOn, requiredCapabilities |-> caps]

ProcessIds == <<"process_file_0", "process_file_1", "process_file_2", "process_file_3",
                "process_file_4", "process_file_5", "process_file_6", "process_file_7",
                "process_file_8", "process_file_9">>

SingleNode == << Subtask("subtask_1", <<>>, <<"read", "write">>) >>

decomposeFileBatchTask(t) ==
  LET fileCount == IF t.fileNum THEN t.num ELSE 5
      n         == Min(fileCount, 10)
      process   == [i \in 1..n |->
                      Subtask(ProcessIds[i], <<"scan_files">>, <<"read", "write", "analyze">>)]
      processIds == [i \in 1..n |-> ProcessIds[i]]
  IN << Subtask("scan_files", <<>>, <<"read", "list_files">>) >>
     \o process
     \o << Subtask("aggregate_results", processIds, <<"read", "write", "aggregate">>) >>

decomposeStepByStepTask(t) ==
  << Subtask("step_1", <<>>, <<"read", "fetch">>),
     Subtask("step_2", <<"step_1">>, <<"read", "write", "transform">>),
     Subtask("step_3", <<"step_2">>, <<"read", "analyze">>),
     Subtask("step_4", <<"step_3">>, <<"read", "write", "generate">>) >>

decomposeAnalysisTask(t) ==
  << Subtask("collect_info", <<>>, <<"read", "search", "fetch">>),
     Subtask("analyze_structure", <<"collect_info">>, <<"read", "analyze">>),
     Subtask("deep_analysis", <<"analyze_structure">>, <<"read", "analyze", "reasoning">>),
     Subtask("synthesize_report", <<"deep_analysis">>, <<"read", "write", "synthesize">>) >>

decomposeGenericTask(t) ==
  << Subtask("prepare", <<>>, <<"read", "plan">>),
     Subtask("execute", <<"prepare">>, <<"read", "write", "execute">>),
     Subtask("verify", <<"execute">>, <<"read", "verify">>) >>

\* decompose, lines 95-106: the template chosen for a text that is decomposed
Template(t) ==
  LET a == analyzeComplexity(t)
  IN IF a.hasMultipleTargets /\ t.file THEN decomposeFileBatchTask(t)
     ELSE IF a.hasMultipleSteps THEN decomposeStepByStepTask(t)
     ELSE IF a.hasDeepAnalysis THEN decomposeAnalysisTask(t)
     ELSE decomposeGenericTask(t)

Ids(sts) == {sts[i].id : i \in 1..Len(sts)}

\* buildDAG, lines 293-308: graph[d] lists, in list order, the subtasks that
\* name d in dependsOn (once per occurrence); unknown ids are skipped
GraphOf(sts) ==
  [d \in Ids(sts) |->
     Concat([i \in 1..Len(sts) |->
               [k \in 1..Count(sts[i].dependsOn, d) |-> sts[i].id]])]

InDegreeOf(sts) ==
  [id \in Ids(sts) |->
     LET st == sts[CHOOSE i \in 1..Len(sts) : sts[i].id = id]
     IN Cardinality({k \in 1..Len(st.dependsOn) : st.dependsOn[k] \in Ids(sts)})]

\* buildDAG, lines 315-317: Object.keys(inDegree) is in insertion order
InitialQueue(sts, deg) ==
  LET ids == [i \in 1..Len(sts) |-> sts[i].id]
  IN SelectSeq(ids, LAMBDA id : deg[id] = 0)

ReleaseEdgeNoCheck(deg, q, nextId) ==
  [deg |-> [deg EXCEPT ![nextId] = @ - 1], q |-> Append(q, nextId)]

\* buildDAG, lines 326-331: one successor edge
ReleaseEdge(deg, q, nextId) ==
  LET d2 == [deg EXCEPT ![nextId] = @ - 1]
  IN [deg |-> d2, q |-> IF d2[nextId] = 0 THEN Append(q, nextId) ELSE q]

RECURSIVE ReleaseAll(_, _, _)
ReleaseAll(edges, deg, q) ==
  IF edges = <<>> THEN [deg |-> deg, q |-> q]
  ELSE LET r == ReleaseEdge(deg, q, Head(edges))
       IN ReleaseAll(Tail(edges), r.deg, r.q)

\* buildDAG, lines 319-333: one iteration of the while loop
LayerStep(g, deg, q) ==
  ReleaseAll(Concat([i \in 1..Len(q) |-> g[q[i]]]), deg, <<>>)

RECURSIVE Layers(_, _, _, _)
Layers(g, deg, q, groups) ==
  IF q = <<>> THEN groups
  ELSE LET r == LayerStep(g, deg, q)
       IN Layers(g, r.deg, r.q, Append(groups, q))

\* buildDAG as a function: the returned object
buildDAG(sts) ==
  LET deg    == InDegreeOf(sts)
      groups == Layers(GraphOf(sts), deg, InitialQueue(sts, deg), <<>>)
  IN [subtasks |-> sts, parallelGroups |-> groups, isValid |-> Len(groups) > 0,
      totalSubtasks |-> Len(sts)]

\* what buildDAG hands back at line 335: always the DAG object
BuildOutcome(sts, groups) == "dag"

\* decompose as a function
decompose(t) ==
  IF ~analyzeComplexity(t).shouldDecompose
  THEN [subtasks |-> SingleNode, parallelGroups |-> << <<"subtask_1">> >>,
        totalSubtasks |-> 1]
  ELSE buildDAG(Template(t))

NodeIds == <<"n1", "n2", "n3", "n4", "n5">>

NodeSet == {NodeIds[i] : i \in 1..MaxNodes}

DepSeq(S) == SelectSeq(SubSeq(NodeIds, 1, MaxNodes), LAMBDA x : x \in S)

BuildIdle ==
  /\ maxSubtasks = DefaultMaxSubtasks
  /\ text = NoText /\ entry = "none" /\ subtasks = <<>> /\ graph = <<>>
  /\ inDegree = <<>> /\ queue = <<>> /\ parallelGroups = <<>>
  /\ bpc = "idle" /\ bres = "none"

\* decompose, lines 73-91: no decomposition, the single-node DAG
DecomposeSingle ==
  /\ bpc = "decompose"
  /\ ~analyzeComplexityWith(text, maxSubtasks).shouldDecompose
  /\ subtasks' = SingleNode
  /\ parallelGroups' = << <<"subtask_1">> >>
  /\ bpc' = "done"
  /\ bres' = "dag"
  /\ UNCHANGED <<maxSubtasks, text, entry, graph, inDegree, queue>>
  /\ UNCHANGED <<slotVars, maVars, retryVars, extVars>>

\* decompose, lines 93-109: the template, handed to buildDAG
DecomposeTemplate ==
  /\ bpc = "decompose"
  /\ analyzeComplexityWith(text, maxSubtasks).shouldDecompose
  /\ subtasks' = Template(text)
  /\ bpc' = "buildDAG"
  /\ UNCHANGED <<maxSubtasks, text, entry, graph, inDegree, queue, parallelGroups, bres>>
  /\ UNCHANGED <<slotVars, maVars, retryVars, extVars>>

\* buildDAG, lines 293-317
BuildDAGInit ==
  /\ bpc = "buildDAG"
  /\ graph' = GraphOf(subtasks)
  /\ inDegree' = InDegreeOf(subtasks)
  /\ queue' = InitialQueue(subtasks, InDegreeOf(subtasks))
  /\ parallelGroups' = <<>>
  /\ bpc' = "layers"
  /\ UNCHANGED <<maxSubtasks, text, entry, subtasks, bres>>
  /\ UNCHANGED <<slotVars, maVars, retryVars, extVars>>

\* buildDAG, lines 319-333
BuildDAGLayer ==
  /\ bpc = "layers"
  /\ queue # <<>>
  /\ LET r == LayerStep(graph, inDegree, queue)
     IN /\ parallelGroups' = Append(parallelGroups, queue)
        /\ inDegree' = r.deg
        /\ queue' = r.q
  /\ UNCHANGED <<maxSubtasks, text, entry, subtasks, graph, bpc, bres>>
  /\ UNCHANGED <<slotVars, maVars, retryVars, extVars>>

\* buildDAG, lines 335-340
BuildDAGReturn ==
  /\ bpc = "layers"
  /\ queue = <<>>
  /\ bpc' = "done"
  /\ bres' = BuildOutcome(subtasks, parallelGroups)
  /\ UNCHANGED <<maxSubtasks, text, entry, subtasks, graph, inDegree, queue, parallelGroups>>
  /\ UNCHANGED <<slotVars, maVars, retryVars, extVars>>

NextBuild ==
  \/ DecomposeSingle
  \/ DecomposeTemplate
  \/ BuildDAGInit
  \/ BuildDAGLayer
  \/ BuildDAGReturn


-----------------------------------------------------------------------------
(* redis-concurrency.js *)

\* this.limits, lines 20-26 and 120-126
Limits == [Simple |-> 10, Standard |-> 4, Batch |-> 2, Orchestrator |-> 2, Deep |-> 1]

Branches == DOMAIN Limits

AllBranches == Branches \cup {"Unknown"}

\* RedisConcurrencyController.acquireSlot, line 39: this.limits[branch] || 1
RedisLimit(b) == IF b \in Branches THEN Limits[b] ELSE 1

LuaAcquireOffByOne(set, limit, taskId) ==
  IF Cardinality(set) <= limit
  THEN [set |-> set \cup {taskId}, ret |-> TRUE]
  ELSE [set |-> set, ret |-> FALSE]

\* the Lua script, lines 42-55, run by the server as one step
LuaAcquire(set, limit, taskId) ==
  IF Cardinality(set) < limit
  THEN [set |-> set \cup {taskId}, ret |-> TRUE]
  ELSE [set |-> set, ret |-> FALSE]

\* LocalConcurrencyController.acquireSlot, lines 129-140; for a branch that
\* this.limits does not hold, slot.size < undefined is false
LocalAcquire(set, b, taskId) ==
  IF b \in Branches /\ Cardinality(set) < Limits[b]
  THEN [set |-> set \cup {taskId}, ret |-> TRUE]
  ELSE [set |-> set, ret |-> FALSE]

\* whether the controller object has a waitForSlot method: the Redis class
\* defines it at lines 80-92, the class at lines 117-166 does not
HasWaitForSlot(c) == c = "redis"

Callers == 1..ncall

BoolStr(b) == IF b THEN "true" ELSE "false"

SlotIdle ==
  /\ ctrl = "none" /\ scen = "none" /\ ncall = 0
  /\ cbranch = <<>> /\ ctask = <<>> /\ cout = <<>>
  /\ slots = [b \in AllBranches |-> {}]
  /\ cpc = <<>> /\ cres = <<>> /\ now = 0 /\ wstart = <<>> /\ wake = <<>> /\ werr = <<>>

InitCallers(n, pc) ==
  /\ ncall = n
  /\ ctask = [c \in 1..n |-> c]
  /\ cout = [c \in 1..n |-> "none"]
  /\ slots = [b \in AllBranches |-> {}]
  /\ cpc = [c \in 1..n |-> pc]
  /\ cres = [c \in 1..n |-> "none"]
  /\ now = 0
  /\ wstart = [c \in 1..n |-> 0]
  /\ wake = [c \in 1..n |-> 0]
  /\ werr = [c \in 1..n |-> "none"]

\* RedisConcurrencyController.acquireSlot, lines 37-57: the script is sent
RedisAcquireCall(c) ==
  /\ scen = "acquire" /\ ctrl = "redis" /\ cpc[c] = "idle"
  /\ cpc' = [cpc EXCEPT ![c] = "eval"]
  /\ UNCHANGED <<ctrl, scen, ncall, cbranch, ctask, cout, slots, cres, now, wstart, wake, werr>>
  /\ UNCHANGED <<buildVars, maVars, retryVars, extVars>>

\* the server runs the script of caller c (lines 42-58)
RedisEval(c) ==
  /\ cpc[c] = "eval"
  /\ LET r == LuaAcquire(slots[cbranch[c]], RedisLimit(cbranch[c]), ctask[c])
     IN /\ slots' = [slots EXCEPT ![cbranch[c]] = r.set]
        /\ cres' = [cres EXCEPT ![c] = BoolStr(r.ret)]
  /\ cpc' = [cpc EXCEPT ![c] = "resolved"]
  /\ UNCHANGED <<ctrl, scen, ncall, cbranch, ctask, cout, now, wstart, wake, werr>>
  /\ UNCHANGED <<buildVars, maVars, retryVars, extVars>>

\* LocalConcurrencyController.acquireSlot, lines 129-140: no await in the
\* body, so the call runs to its return in one step
LocalAcquireCall(c) ==
  /\ scen = "acquire" /\ ctrl = "local" /\ cpc[c] = "idle"
  /\ LET r == LocalAcquire(slots[cbranch[c]], cbranch[c], ctask[c])
     IN /\ slots' = [slots EXCEPT ![cbranch[c]] = r.set]
        /\ cres' = [cres EXCEPT ![c] = BoolStr(r.ret)]
  /\ cpc' = [cpc EXCEPT ![c] = "resolved"]
  /\ UNCHANGED <<ctrl, scen, ncall, cbranch, ctask, cout, now, wstart, wake, werr>>
  /\ UNCHANGED <<buildVars, maVars, retryVars, extVars>>

\* controller.waitForSlot(branch, taskId, timeout) is called (index.js line
\* 966): redis-concurrency.js line 81, or a TypeError where the controller
\* has no such method
WaitForSlotCall(c) ==
  /\ cpc[c] = "waitForSlot"
  /\ IF HasWaitForSlot(ctrl)
     THEN /\ wstart' = [wstart EXCEPT ![c] = now]
          /\ cpc' = [cpc EXCEPT ![c] = "loop"]
          /\ werr' = werr
     ELSE /\ cpc' = [cpc EXCEPT ![c] = "threw"]
          /\ werr' = [werr EXCEPT ![c] = "TypeError"]
          /\ wstart' = wstart
  /\ UNCHANGED <<ctrl, scen, ncall, cbranch, ctask, cout, slots, cres, now, wake>>
  /\ UNCHANGED <<buildVars, maVars, retryVars, extVars>>

\* waitForSlot, lines 83-84 and 91: the loop test, then the script is sent
WaitLoopTest(c) ==
  /\ cpc[c] = "loop"
  /\ IF now - wstart[c] < TimeoutTicks
     THEN /\ cpc' = [cpc EXCEPT ![c] = "eval"]
          /\ werr' = werr
     ELSE /\ cpc' = [cpc EXCEPT ![c] = "threw"]
          /\ werr' = [werr EXCEPT ![c] = "timeout"]
  /\ UNCHANGED <<ctrl, scen, ncall, cbranch, ctask, cout, slots, cres, now, wstart, wake>>
  /\ UNCHANGED <<buildVars, maVars, retryVars, extVars>>

\* waitForSlot, lines 84-88: the reply of acquireSlot
WaitResume(c) ==
  /\ scen \in {"wait", "single"} /\ cpc[c] = "resolved"
  /\ IF cres[c] = "true"
     THEN /\ cpc' = [cpc EXCEPT ![c] = "holding"]
          /\ wake' = wake
     ELSE /\ cpc' = [cpc EXCEPT ![c] = "sleep"]
          /\ wake' = [wake EXCEPT ![c] = now + 1]
  /\ UNCHANGED <<ctrl, scen, ncall, cbranch, ctask, cout, slots, cres, now, wstart, werr>>
  /\ UNCHANGED <<buildVars, maVars, retryVars, extVars>>

\* waitForSlot, line 88: the 500 ms timer fires
WaitWake(c) ==
  /\ cpc[c] = "sleep" /\ now >= wake[c]
  /\ cpc' = [cpc EXCEPT ![c] = "loop"]
  /\ UNCHANGED <<ctrl, scen, ncall, cbranch, ctask, cout, slots, cres, now, wstart, wake, werr>>
  /\ UNCHANGED <<buildVars, maVars, retryVars, extVars>>

\* releaseSlot, lines 64-67 and 142-147: the task id leaves the set
Released(set, taskId) == set \ {taskId}

\* a caller of waitForSlot that got its slot gives it back
ReleaseSlot(c) ==
  /\ scen = "wait" /\ cpc[c] = "holding"
  /\ slots' = [slots EXCEPT ![cbranch[c]] = Released(@, ctask[c])]
  /\ cpc' = [cpc EXCEPT ![c] = "released"]
  /\ UNCHANGED <<ctrl, scen, ncall, cbranch, ctask, cout, cres, now, wstart, wake, werr>>
  /\ UNCHANGED <<buildVars, maVars, retryVars, extVars>>

Tick ==
  /\ scen \in {"wait", "single"} /\ now < MaxClock
  /\ now' = now + 1
  /\ UNCHANGED <<ctrl, scen, ncall, cbranch, ctask, cout, slots, cpc, cres, wstart, wake, werr>>
  /\ UNCHANGED <<buildVars, maVars, retryVars, extVars>>

NextSlot ==
  \/ \E c \in Callers : RedisAcquireCall(c)
  \/ \E c \in Callers : RedisEval(c)
  \/ \E c \in Callers : LocalAcquireCall(c)
  \/ \E c \in Callers : WaitForSlotCall(c)
  \/ \E c \in Callers : WaitLoopTest(c)
  \/ \E c \in Callers : WaitResume(c)
  \/ \E c \in Callers : WaitWake(c)
  \/ \E c \in Callers : ReleaseSlot(c)
  \/ Tick

-----------------------------------------------------------------------------
(* index.js: SubagentScheduler.executeSingle, lines 916-1073 *)

Goto(c, pc) == cpc' = [cpc EXCEPT ![c] = pc]

Return(c, out) ==
  /\ cpc' = [cpc EXCEPT ![c] = "returned"]
  /\ cout' = [cout EXCEPT ![c] = out]

\* lines 923-929: branch = options.forceBranch || classification.branch
SingleClassify(c) ==
  /\ scen = "single" /\ cpc[c] = "classify"
  /\ IF cbranch[c] = "Simple"
     THEN Return(c, "success")
     ELSE Goto(c, "budget") /\ cout' = cout
  /\ UNCHANGED <<ctrl, scen, ncall, cbranch, ctask, slots, cres, now, wstart, wake, werr>>
  /\ UNCHANGED <<buildVars, maVars, retryVars, extVars>>

\* lines 932-941: the budget check
SingleBudget(c) ==
  /\ cpc[c] = "budget"
  /\ \/ Goto(c, "confirm") /\ cout' = cout
     \/ Return(c, "BUDGET_EXCEEDED")
  /\ UNCHANGED <<ctrl, scen, ncall, cbranch, ctask, slots, cres, now, wstart, wake, werr>>
  /\ UNCHANGED <<buildVars, maVars, retryVars, extVars>>

\* lines 944-962: the user's answer (or no confirmation asked)
SingleConfirm(c) ==
  /\ cpc[c] = "confirm"
  /\ \/ Goto(c, "waitForSlot") /\ cout' = cout
     \/ Return(c, "USER_CANCELLED")
     \/ Return(c, "success")
  /\ UNCHANGED <<ctrl, scen, ncall, cbranch, ctask, slots, cres, now, wstart, wake, werr>>
  /\ UNCHANGED <<buildVars, maVars, retryVars, extVars>>

\* line 966: waitForSlot threw; control goes to the catch at line 1051
SingleWaitThrew(c) ==
  /\ scen = "single" /\ cpc[c] = "threw"
  /\ Goto(c, "catch")
  /\ UNCHANGED <<ctrl, scen, ncall, cbranch, ctask, cout, slots, cres, now, wstart, wake, werr>>
  /\ UNCHANGED <<buildVars, maVars, retryVars, extVars>>

\* line 969 and scheduler.js lines 190-199: config.branches[branch] is
\* undefined for a branch the configuration does not hold, and reading
\* branchConfig.cleanup throws
SingleBuildConfig(c) ==
  /\ scen = "single" /\ cpc[c] = "holding"
  /\ IF cbranch[c] \in Branches THEN Goto(c, "progress") ELSE Goto(c, "catch")
  /\ UNCHANGED <<ctrl, scen, ncall, cbranch, ctask, cout, slots, cres, now, wstart, wake, werr>>
  /\ UNCHANGED <<buildVars, maVars, retryVars, extVars>>

\* lines 972-992: the progress message is sent and its updater started
SingleProgress(c) ==
  /\ cpc[c] = "progress"
  /\ Goto(c, "execute")
  /\ UNCHANGED <<ctrl, scen, ncall, cbranch, ctask, cout, slots, cres, now, wstart, wake, werr>>
  /\ UNCHANGED <<buildVars, maVars, retryVars, extVars>>

\* lines 995-1009: the execution; retryExecutor.execute returns a result with
\* success true or false
SingleExecute(c) ==
  /\ cpc[c] = "execute"
  /\ \E ok \in {"success", "failure"} :
        /\ cout' = [cout EXCEPT ![c] = ok]
        /\ Goto(c, "release")
  /\ UNCHANGED <<ctrl, scen, ncall, cbranch, ctask, slots, cres, now, wstart, wake, werr>>
  /\ UNCHANGED <<buildVars, maVars, retryVars, extVars>>

\* line 1012: releaseSlot
SingleRelease(c) ==
  /\ cpc[c] = "release"
  /\ slots' = [slots EXCEPT ![cbranch[c]] = Released(@, ctask[c])]
  /\ Goto(c, "record")
  /\ UNCHANGED <<ctrl, scen, ncall, cbranch, ctask, cout, cres, now, wstart, wake, werr>>
  /\ UNCHANGED <<buildVars, maVars, retryVars, extVars>>

\* lines 1015-1049: history and the completion message, then the result
SingleRecord(c) ==
  /\ cpc[c] = "record"
  /\ \/ Goto(c, "returned")
     \/ Goto(c, "catch")
  /\ UNCHANGED <<ctrl, scen, ncall, cbranch, ctask, cout, slots, cres, now, wstart, wake, werr>>
  /\ UNCHANGED <<buildVars, maVars, retryVars, extVars>>

\* lines 1051-1072: the catch block records the failure and returns it, or
\* the call rejects with what insertTaskHistory threw
SingleCatch(c) ==
  /\ cpc[c] = "catch"
  /\ \/ Return(c, "EXECUTION_ERROR")
     \/ Return(c, "rejected")
  /\ UNCHANGED <<ctrl, scen, ncall, cbranch, ctask, slots, cres, now, wstart, wake, werr>>
  /\ UNCHANGED <<buildVars, maVars, retryVars, extVars>>

NextSingle ==
  \/ \E c \in Callers : SingleClassify(c)
  \/ \E c \in Callers : SingleBudget(c)
  \/ \E c \in Callers : SingleConfirm(c)
  \/ \E c \in Callers : WaitForSlotCall(c)
  \/ \E c \in Callers : WaitLoopTest(c)
  \/ \E c \in Callers : RedisEval(c)
  \/ \E c \in Callers : WaitResume(c)
  \/ \E c \in Callers : WaitWake(c)
  \/ \E c \in Callers : SingleWaitThrew(c)
  \/ \E c \in Callers : SingleBuildConfig(c)
  \/ \E c \in Callers : SingleProgress(c)
  \/ \E c \in Callers : SingleExecute(c)
  \/ \E c \in Callers : SingleRelease(c)
  \/ \E c \in Callers : SingleRecord(c)
  \/ \E c \in Callers : SingleCatch(c)
  \/ Tick

\* line 965: taskId = `task_${Date.now()}`. The ids of n calls, in the order
\* in which they reach the line: that of a call is the id of the call before
\* it when both read the clock within the same millisecond, else a new one.
TaskIds(n) ==
  {f \in [1..n -> 1..n] : f[1] = 1 /\ \A c \in 1..(n - 1) : f[c + 1] \in {f[c], f[c] + 1}}

\* executeSingle while no polling interval of waitForSlot (500 ms) ends: a
\* call that was refused its slot is still asleep
NextAdmission ==
  \/ \E c \in Callers : SingleClassify(c)
  \/ \E c \in Callers : SingleBudget(c)
  \/ \E c \in Callers : SingleConfirm(c)
  \/ \E c \in Callers : WaitForSlotCall(c)
  \/ \E c \in Callers : WaitLoopTest(c)
  \/ \E c \in Callers : RedisEval(c)
  \/ \E c \in Callers : WaitResume(c)
  \/ \E c \in Callers : SingleWaitThrew(c)
  \/ \E c \in Callers : SingleBuildConfig(c)
  \/ \E c \in Callers : SingleProgress(c)
  \/ \E c \in Callers : SingleExecute(c)
  \/ \E c \in Callers : SingleRelease(c)
  \/ \E c \in Callers : SingleRecord(c)
  \/ \E c \in Callers : SingleCatch(c)

-----------------------------------------------------------------------------
(* agent-registry.js *)

\* register, lines 27-55
NewAgent(caps, maxConcurrent) ==
  [caps |-> caps, maxConcurrent |-> maxConcurrent, currentLoad |-> 0, status |-> "healthy"]

\* the agents setupDefaultAgents creates (index.js, lines 683-706)
AgentKinds ==
  { NewAgent({"read", "write", "simple_analysis"}, 5),
    NewAgent({"read", "write", "analyze", "search"}, 3),
    NewAgent({"read", "write", "analyze", "deep_research", "reasoning"}, 1) }

\* registries of up to MaxAgents agents, in registration order
Registries == UNION {[1..n -> AgentKinds] : n \in 0..MaxAgents}

\* updateLoad, lines 98-112
updateLoad(ags, id, delta) ==
  IF id \notin 1..Len(ags) THEN ags
  ELSE LET a    == ags[id]
           load == Max(0, a.currentLoad + delta)
           st   == IF load >= a.maxConcurrent THEN "busy"
                   ELSE IF a.status = "busy" THEN "healthy" ELSE a.status
       IN [ags EXCEPT ![id] = [a EXCEPT !.currentLoad = load, !.status = st]]

\* constructor, lines 15-16, in ms
HeartbeatInterval == 30000

OfflineThreshold == 90000

\* startHealthCheck, line 240: now - agent.lastHeartbeat > offlineThreshold,
\* the time since the last heartbeat counted in health checks, which run
\* every heartbeatInterval
Silent(n) == n * HeartbeatInterval > OfflineThreshold

\* the count stops at the first value that is beyond the threshold
SilentTicks == OfflineThreshold \div HeartbeatInterval + 1

markOfflineKeepLoad(a) == [a EXCEPT !.status = "offline"]

\* startHealthCheck, lines 242-243
markOffline(a) == [a EXCEPT !.status = "offline", !.currentLoad = 0]

\* startHealthCheck, lines 235-250: one run of the interval callback, n[w]
\* being the time since the last heartbeat of agent w
healthCheck(ags, n) ==
  [w \in 1..Len(ags) |->
     IF Silent(n[w]) /\ ags[w].status # "offline" THEN markOffline(ags[w]) ELSE ags[w]]

\* heartbeat, lines 77-91
heartbeat(ags, w) ==
  [ags EXCEPT ![w].status = IF @ = "offline" THEN "healthy" ELSE @]

\* currentLoad / maxConcurrent of a is less than that of b
RatioLess(a, b) == a.currentLoad * b.maxConcurrent < b.currentLoad * a.maxConcurrent

\* discover, lines 176-185: the comparator is negative
Before(a, b) ==
  \/ a.status = "healthy" /\ b.status # "healthy"
  \/ /\ ~(b.status = "healthy" /\ a.status # "healthy")
     /\ RatioLess(a, b)

\* discover, lines 144-189, with minAvailable 1 and preferHealthy.
\* Array.prototype.sort is stable: an agent comes after those the comparator
\* puts before it and after the earlier registered ones it ties with.
discover(ags, caps, excludeIds) ==
  LET C == {id \in 1..Len(ags) :
              /\ id \notin excludeIds
              /\ ags[id].status # "offline"
              /\ Range(caps) \subseteq ags[id].caps
              /\ ags[id].maxConcurrent - ags[id].currentLoad >= 1}
      ahead(x) == {y \in C : \/ Before(ags[y], ags[x])
                             \/ ~Before(ags[x], ags[y]) /\ y < x}
  IN [k \in 1..Cardinality(C) |-> CHOOSE x \in C : Cardinality(ahead(x)) = k - 1]

-----------------------------------------------------------------------------
(* agent-router.js *)

\* selectByCapability, lines 133-150: every candidate holds every required
\* capability, so the scores are equal and the stable sort keeps the order
selectByCapability(ags, cands) == cands[1]

\* selectByLoadBalance, lines 155-162: the first candidate of least load ratio
selectByLoadBalance(ags, cands) ==
  cands[CHOOSE i \in 1..Len(cands) :
          /\ \A j \in 1..Len(cands) : ~RatioLess(ags[cands[j]], ags[cands[i]])
          /\ \A j \in 1..(i - 1) : RatioLess(ags[cands[i]], ags[cands[j]])]

selectAgent(ags, cands, strategy) ==
  IF strategy = "load_balance" THEN selectByLoadBalance(ags, cands)
  ELSE selectByCapability(ags, cands)

Routed(ags, id, isFallback, via) ==
  [ags |-> updateLoad(ags, id, 1), agentId |-> id, isFallback |-> isFallback,
   via |-> via, pending |-> FALSE]

\* route, lines 48-96, and fallbackRoute, lines 200-215: what runs before
\* the first await that suspends. Either a route, or the rejected relaxed
\* route that fallbackRoute is awaiting (pending).
RouteSync(ags, caps, strategy, excludeAgents) ==
  LET cands   == discover(ags, caps, excludeAgents)
      relaxed == SubSeq(caps, 1, Min(1, Len(caps)))
      cands2  == discover(ags, relaxed, {})
  IN IF cands # <<>> THEN Routed(ags, selectAgent(ags, cands, strategy), FALSE, "direct")
     ELSE IF cands2 # <<>>
          THEN Routed(ags, selectAgent(ags, cands2, "load_balance"), FALSE, "relaxed")
          ELSE [ags |-> ags, agentId |-> 0, isFallback |-> FALSE, via |-> "none",
                pending |-> TRUE]

\* fallbackRoute, lines 216-235: the default agent, whatever its load
RouteDefault(ags) ==
  IF Len(ags) >= 1 THEN Routed(ags, 1, TRUE, "default")
  ELSE [ags |-> ags, agentId |-> 0, isFallback |-> FALSE, via |-> "none",
        pending |-> FALSE]

\* one call of route, run to its end
Route(ags, caps, strategy, excludeAgents) ==
  LET r == RouteSync(ags, caps, strategy, excludeAgents)
  IN IF r.pending THEN RouteDefault(r.ags) ELSE r

\* reRoute, lines 243-259
reRoute(ags, agentId, caps) ==
  Route(updateLoad(ags, agentId, -1), caps, "load_balance", {agentId})

-----------------------------------------------------------------------------
(* index.js: executeMultiAgent, routeSubtasks, executeDAG *)

NoRoute == [agentId |-> 0, isFallback |-> FALSE, via |-> "none"]

SubtaskOf(d, id) == d.subtasks[CHOOSE i \in 1..Len(d.subtasks) : d.subtasks[i].id = id]

DagIds == Ids(dag.subtasks)

\* the texts whose DAGs are executed: no marker; a long text with a
\* dependency marker (generic template); batch texts naming 0..MaxFiles files
MATexts ==
  {NoText, [NoText EXCEPT !.deps = TRUE, !.len = 1]}
  \cup {[NoText EXCEPT !.targets = TRUE, !.file = TRUE, !.fileNum = TRUE, !.len = 1,
                       !.num = n] : n \in 0..MaxFiles}

\* routeSubtasks, lines 775-778
RouteExecutable ==
  SelectSeq(dag.subtasks,
            LAMBDA st : /\ routes[st.id].agentId = 0
                        /\ Range(st.dependsOn) \subseteq rcompleted)

\* executeDAG, lines 812-820
Executable(group) ==
  SelectSeq(group,
            LAMBDA id : /\ routes[id].agentId # 0
                        /\ Range(SubtaskOf(dag, id).dependsOn) \subseteq completed)

SettledOnlyCompleted(e) == e = "done"

\* executeDAG, line 859: Promise.all resolves once every promise of the group
\* has settled; none of them rejects
Settled(e) == e \in {"done", "failed"}

\* aggregateByDAG, part_009 lines 332-358, reduced to which results it merges:
\* per group the ids that have a result, groups without any left out
aggregateByDAG(d, res) ==
  LET perGroup == [g \in 1..Len(d.parallelGroups) |->
                     SelectSeq(d.parallelGroups[g], LAMBDA id : res[id] # "none")]
      merged   == SelectSeq(perGroup, LAMBDA ids : ids # <<>>)
  IN [success |-> merged # <<>>, result |-> merged]

\* executeMultiAgent has not returned
NotReturned == [success |-> FALSE, result |-> <<>>, subtaskCount |-> 0]

\* executeMultiAgent, lines 740-758: the object returned after aggregation
MultiAgentResult(d, res) ==
  [success |-> TRUE, result |-> aggregateByDAG(d, res).result,
   subtaskCount |-> d.totalSubtasks]

MAIdle ==
  /\ agents = <<>> /\ dag = <<>> /\ retryOpt = TRUE /\ mpc = "idle" /\ ri = 0
  /\ rphase = "idle" /\ rex = <<>> /\ rk = 0 /\ rpend = <<>>
  /\ rcompleted = {} /\ routes = <<>> /\ gi = 0 /\ gphase = "idle" /\ status = <<>>
  /\ cur = <<>> /\ results = <<>> /\ completed = {} /\ mout = NotReturned
  /\ sinceHeartbeat = <<>> /\ orphaned = {}

\* the route a call of route returned is stored (routeSubtasks, line 787)
SetRoute(id, r) ==
  /\ agents' = r.ags
  /\ routes' = [routes EXCEPT ![id] = [agentId |-> r.agentId, isFallback |-> r.isFallback,
                                       via |-> r.via]]
  /\ cur' = [cur EXCEPT ![id] = r.agentId]
  /\ status' = [status EXCEPT ![id] = "routed"]

\* routeSubtasks, lines 773-779: an iteration of the loop over the groups
\* begins with the subtasks it is going to route
RouteGroupBegin ==
  /\ mpc = "route" /\ rphase = "idle" /\ ri <= Len(dag.parallelGroups)
  /\ rex' = RouteExecutable
  /\ rk' = 1 /\ rpend' = <<>> /\ rphase' = "calls"
  /\ UNCHANGED <<agents, dag, retryOpt, mpc, ri, rcompleted, routes, gi, gphase, status,
                 cur, results, completed, mout>>
  /\ UNCHANGED <<buildVars, slotVars, retryVars, healthVars, extVars>>

\* routeSubtasks, lines 781-787: executable.map makes the next call of route,
\* which runs until it returns or suspends in fallbackRoute
RouteCall ==
  /\ mpc = "route" /\ rphase = "calls" /\ rk <= Len(rex)
  /\ LET id == rex[rk].id
         r  == RouteSync(agents, rex[rk].requiredCapabilities, "capability_match", {})
     IN IF r.pending
        THEN /\ rpend' = Append(rpend, id)
             /\ UNCHANGED <<agents, routes, cur, status>>
        ELSE /\ SetRoute(id, r)
             /\ UNCHANGED rpend
  /\ rk' = rk + 1
  /\ UNCHANGED <<dag, retryOpt, mpc, ri, rphase, rex, rcompleted, gi, gphase, results,
                 completed, mout>>
  /\ UNCHANGED <<buildVars, slotVars, retryVars, healthVars, extVars>>

\* the oldest suspended call resumes in the catch of fallbackRoute, once
\* executable.map has made all its calls; a call that throws leaves no route
\* (routeSubtasks, lines 788-792)
RouteResume ==
  /\ mpc = "route" /\ rphase = "calls" /\ rk > Len(rex) /\ rpend # <<>>
  /\ LET r == RouteDefault(agents)
     IN IF r.agentId # 0 THEN SetRoute(Head(rpend), r)
        ELSE UNCHANGED <<agents, routes, cur, status>>
  /\ rpend' = Tail(rpend)
  /\ UNCHANGED <<dag, retryOpt, mpc, ri, rphase, rex, rk, rcompleted, gi, gphase, results,
                 completed, mout>>
  /\ UNCHANGED <<buildVars, slotVars, retryVars, healthVars, extVars>>

\* routeSubtasks, lines 794-797: Promise.all resolved; every subtask of the
\* iteration is added to "completed"
RouteGroupEnd ==
  /\ mpc = "route" /\ rphase = "calls" /\ rk > Len(rex) /\ rpend = <<>>
  /\ rcompleted' = rcompleted \cup Ids(rex)
  /\ ri' = ri + 1 /\ rphase' = "idle"
  /\ UNCHANGED <<agents, dag, retryOpt, mpc, rex, rk, rpend, routes, gi, gphase, status,
                 cur, results, completed, mout>>
  /\ UNCHANGED <<buildVars, slotVars, retryVars, healthVars, extVars>>

\* routeSubtasks, line 800: the routes are returned; executeDAG begins
RouteReturn ==
  /\ mpc = "route" /\ rphase = "idle" /\ ri > Len(dag.parallelGroups)
  /\ mpc' = "exec"
  /\ UNCHANGED <<agents, dag, retryOpt, ri, rphase, rex, rk, rpend, rcompleted, routes, gi, gphase, status, cur,
                 results, completed, mout>>
  /\ UNCHANGED <<buildVars, slotVars, retryVars, healthVars, extVars>>

\* executeDAG, lines 810-830: the executable subtasks of the group are started
ExecGroupStart ==
  /\ mpc = "exec" /\ gphase = "idle" /\ gi <= Len(dag.parallelGroups)
  /\ status' = [id \in DagIds |->
               IF id \in Range(Executable(dag.parallelGroups[gi])) THEN "running" ELSE status[id]]
  /\ gphase' = "running"
  /\ UNCHANGED <<agents, dag, retryOpt, mpc, ri, rphase, rex, rk, rpend, rcompleted, routes, gi, cur, results,
                 completed, mout>>
  /\ UNCHANGED <<buildVars, slotVars, retryVars, healthVars, extVars>>

\* executeDAG, lines 828-837: executeSubtask returned a result, whose success
\* field is true ("ok") or false ("fail")
ExecReturn(id, r) ==
  /\ mpc = "exec" /\ status[id] = "running"
  /\ results' = [results EXCEPT ![id] = r]
  /\ completed' = completed \cup {id}
  /\ agents' = updateLoad(agents, routes[id].agentId, -1)
  /\ status' = [status EXCEPT ![id] = "done"]
  /\ UNCHANGED <<dag, retryOpt, mpc, ri, rphase, rex, rk, rpend, rcompleted, routes, gi, gphase, cur, mout>>
  /\ UNCHANGED <<buildVars, slotVars, retryVars, healthVars, extVars>>

\* executeDAG, lines 838-856: executeSubtask threw; with retry, reRoute and
\* the second executeSubtask call
ExecThrow(id) ==
  /\ mpc = "exec" /\ status[id] = "running"
  /\ IF retryOpt
     THEN LET r == reRoute(agents, routes[id].agentId, SubtaskOf(dag, id).requiredCapabilities)
          IN /\ agents' = r.ags
             /\ cur' = [cur EXCEPT ![id] = r.agentId]
             /\ status' = [status EXCEPT ![id] = IF r.agentId # 0 THEN "rerunning" ELSE "failed"]
     ELSE /\ status' = [status EXCEPT ![id] = "failed"]
          /\ UNCHANGED <<agents, cur>>
  /\ UNCHANGED <<dag, retryOpt, mpc, ri, rphase, rex, rk, rpend, rcompleted, routes, gi, gphase, results,
                 completed, mout>>
  /\ UNCHANGED <<buildVars, slotVars, retryVars, healthVars, extVars>>

\* executeDAG, lines 846-849: the second executeSubtask call returned
RetryReturn(id, r) ==
  /\ mpc = "exec" /\ status[id] = "rerunning"
  /\ results' = [results EXCEPT ![id] = r]
  /\ completed' = completed \cup {id}
  /\ status' = [status EXCEPT ![id] = "done"]
  /\ UNCHANGED <<agents, dag, retryOpt, mpc, ri, rphase, rex, rk, rpend, rcompleted, routes, gi, gphase, cur, mout>>
  /\ UNCHANGED <<buildVars, slotVars, retryVars, healthVars, extVars>>

\* executeDAG, lines 850-852: the second executeSubtask call threw
RetryThrow(id) ==
  /\ mpc = "exec" /\ status[id] = "rerunning"
  /\ status' = [status EXCEPT ![id] = "failed"]
  /\ UNCHANGED <<agents, dag, retryOpt, mpc, ri, rphase, rex, rk, rpend, rcompleted, routes, gi, gphase, cur,
                 results, completed, mout>>
  /\ UNCHANGED <<buildVars, slotVars, retryVars, healthVars, extVars>>

\* executeDAG, line 859: the group has settled; the next group
GroupSettle ==
  /\ mpc = "exec" /\ gphase = "running"
  /\ \A id \in Range(dag.parallelGroups[gi]) :
        status[id] \in {"running", "rerunning", "done", "failed"} => Settled(status[id])
  /\ gi' = gi + 1
  /\ gphase' = "idle"
  /\ UNCHANGED <<agents, dag, retryOpt, mpc, ri, rphase, rex, rk, rpend, rcompleted, routes, status, cur, results,
                 completed, mout>>
  /\ UNCHANGED <<buildVars, slotVars, retryVars, healthVars, extVars>>

\* executeDAG, line 862, and executeMultiAgent, lines 740-758
MultiAgentReturn ==
  /\ mpc = "exec" /\ gphase = "idle" /\ gi > Len(dag.parallelGroups)
  /\ mpc' = "returned"
  /\ mout' = MultiAgentResult(dag, results)
  /\ UNCHANGED <<agents, dag, retryOpt, ri, rphase, rex, rk, rpend, rcompleted, routes, gi, gphase, status, cur,
                 results, completed>>
  /\ UNCHANGED <<buildVars, slotVars, retryVars, healthVars, extVars>>

EngineStep ==
  \/ RouteGroupBegin
  \/ RouteCall
  \/ RouteResume
  \/ RouteGroupEnd
  \/ RouteReturn
  \/ ExecGroupStart
  \/ \E id \in DagIds, r \in {"ok", "fail"} : ExecReturn(id, r)
  \/ \E id \in DagIds : ExecThrow(id)
  \/ \E id \in DagIds, r \in {"ok", "fail"} : RetryReturn(id, r)
  \/ \E id \in DagIds : RetryThrow(id)
  \/ GroupSettle
  \/ MultiAgentReturn

NextMA == EngineStep

\* A timer or a message is handled only while nothing runs or while the
\* engine awaits something that takes time: route and routeSubtasks await
\* nothing but promises that are already settled, so routing runs from its
\* first call to its last without the health check or a heartbeat in between.
\* The registry is followed until executeMultiAgent returns.
TimersRun ==
  \/ mpc = "idle"
  \/ mpc = "route" /\ rphase = "idle" /\ ri = 1
  \/ mpc = "exec" /\ gphase = "running"

\* agent-registry.js, heartbeat, lines 77-91: agent w reports
Heartbeat(w) ==
  /\ TimersRun
  /\ agents' = heartbeat(agents, w)
  /\ sinceHeartbeat' = [sinceHeartbeat EXCEPT ![w] = 0]
  /\ UNCHANGED <<dag, retryOpt, mpc, ri, rphase, rex, rk, rpend, rcompleted, routes, gi, gphase,
                 status, cur, results, completed, mout, orphaned>>
  /\ UNCHANGED <<buildVars, slotVars, retryVars, extVars>>

\* agent-registry.js, startHealthCheck, lines 235-250: heartbeatInterval has
\* passed and the callback runs
HealthCheck ==
  /\ TimersRun
  /\ sinceHeartbeat' = [w \in 1..Len(agents) |-> Min(sinceHeartbeat[w] + 1, SilentTicks)]
  /\ agents' = healthCheck(agents, sinceHeartbeat')
  /\ orphaned' = orphaned \cup
                   {<<id, cur[id]>> : id \in {x \in DagIds :
                        /\ status[x] \in {"running", "rerunning"}
                        /\ agents[cur[x]].status # "offline"
                        /\ agents'[cur[x]].status = "offline"}}
  /\ UNCHANGED <<dag, retryOpt, mpc, ri, rphase, rex, rk, rpend, rcompleted, routes, gi, gphase,
                 status, cur, results, completed, mout>>
  /\ UNCHANGED <<buildVars, slotVars, retryVars, extVars>>

\* agent-registry.js, updateLoad, lines 98-112, called on the registry; a
\* load is raised to one above maxConcurrent at most
UpdateLoad(w, delta) ==
  /\ mpc = "idle"
  /\ delta = 1 => agents[w].currentLoad <= agents[w].maxConcurrent
  /\ agents' = updateLoad(agents, w, delta)
  /\ UNCHANGED <<dag, retryOpt, mpc, ri, rphase, rex, rk, rpend, rcompleted, routes, gi, gphase,
                 status, cur, results, completed, mout, healthVars>>
  /\ UNCHANGED <<buildVars, slotVars, retryVars, extVars>>

\* the registry on its own: loads change, heartbeats come, the health check
\* runs
NextRegistry ==
  \/ \E w \in 1..Len(agents), delta \in {-1, 1} : UpdateLoad(w, delta)
  \/ \E w \in 1..Len(agents) : Heartbeat(w)
  \/ HealthCheck

\* the engine with the health check running; nothing in the repository calls
\* heartbeat, the agents of setupDefaultAgents send none
NextHealth ==
  \/ EngineStep
  \/ HealthCheck

-----------------------------------------------------------------------------
(* agent-router.js: routeDAG *)

\* routeDAG, line 294, with the deletions of line 312: the subtasks that
\* have no route
RouteDAGPending == {id \in DagIds : routes[id].agentId = 0}

\* routeDAG, lines 298-301
RouteDAGExecutable ==
  SelectSeq(dag.subtasks,
            LAMBDA st : /\ st.id \notin rcompleted
                        /\ routes[st.id].agentId = 0
                        /\ Range(st.dependsOn) \subseteq rcompleted)

\* routeDAG, lines 296-305 and 329: the test of the loop; the routes are
\* returned, or the deadlock error is thrown, or the subtasks to route in
\* this iteration are chosen
RouteDAGLoop ==
  /\ mpc = "routeDAG" /\ rphase = "idle"
  /\ IF RouteDAGPending = {}
     THEN mpc' = "routed" /\ UNCHANGED <<rex, rk, rphase>>
     ELSE IF RouteDAGExecutable = <<>>
          THEN mpc' = "deadlock" /\ UNCHANGED <<rex, rk, rphase>>
          ELSE /\ rex' = RouteDAGExecutable /\ rk' = 1 /\ rphase' = "calls"
               /\ mpc' = mpc
  /\ UNCHANGED <<agents, dag, retryOpt, ri, rpend, rcompleted, routes, gi, gphase, status,
                 cur, results, completed, mout>>
  /\ UNCHANGED <<buildVars, slotVars, retryVars, healthVars, extVars>>

\* routeDAG, lines 308-312: executable.map makes the next call of route,
\* which runs until it returns or suspends in fallbackRoute
RouteDAGCall ==
  /\ mpc = "routeDAG" /\ rphase = "calls" /\ rk <= Len(rex)
  /\ LET id == rex[rk].id
         r  == RouteSync(agents, rex[rk].requiredCapabilities, "capability_match", {})
     IN IF r.pending
        THEN /\ rpend' = Append(rpend, id)
             /\ UNCHANGED <<agents, routes, cur, status>>
        ELSE /\ SetRoute(id, r)
             /\ UNCHANGED rpend
  /\ rk' = rk + 1
  /\ UNCHANGED <<dag, retryOpt, mpc, ri, rphase, rex, rcompleted, gi, gphase, results,
                 completed, mout>>
  /\ UNCHANGED <<buildVars, slotVars, retryVars, healthVars, extVars>>

\* the oldest suspended call resumes in the catch of fallbackRoute; a call
\* that throws leaves its subtask pending (routeDAG, lines 314-320)
RouteDAGResume ==
  /\ mpc = "routeDAG" /\ rphase = "calls" /\ rk > Len(rex) /\ rpend # <<>>
  /\ LET r == RouteDefault(agents)
     IN IF r.agentId # 0 THEN SetRoute(Head(rpend), r)
        ELSE UNCHANGED <<agents, routes, cur, status>>
  /\ rpend' = Tail(rpend)
  /\ UNCHANGED <<dag, retryOpt, mpc, ri, rphase, rex, rk, rcompleted, gi, gphase, results,
                 completed, mout>>
  /\ UNCHANGED <<buildVars, slotVars, retryVars, healthVars, extVars>>

\* routeDAG, lines 323-327: Promise.all resolved; nothing is added to
\* "completed", and the loop test comes again
RouteDAGSettled ==
  /\ mpc = "routeDAG" /\ rphase = "calls" /\ rk > Len(rex) /\ rpend = <<>>
  /\ rphase' = "idle"
  /\ UNCHANGED <<agents, dag, retryOpt, mpc, ri, rex, rk, rpend, rcompleted, routes, gi,
                 gphase, status, cur, results, completed, mout>>
  /\ UNCHANGED <<buildVars, slotVars, retryVars, healthVars, extVars>>

NextRouteDAG ==
  \/ RouteDAGLoop
  \/ RouteDAGCall
  \/ RouteDAGResume
  \/ RouteDAGSettled

-----------------------------------------------------------------------------
(* index.js: RetryExecutor *)

\* An error message, reduced to what classifyError reads of it: which of its
\* regexes match (lines 2015-2022)
ErrorKeywords ==
  {"timeout", "network", "rate limit", "memory", "permission", "not found", "invalid",
   "quota"}

\* messages matching at most MaxKeywords of the regexes
ErrorMessages == {m \in SUBSET ErrorKeywords : Cardinality(m) <= MaxKeywords}

\* classifyError, lines 2012-2025: the first regex that matches decides
classifyError(m) ==
  IF "timeout" \in m THEN "TIMEOUT"
  ELSE IF "network" \in m THEN "NETWORK"
  ELSE IF "rate limit" \in m THEN "RATE_LIMIT"
  ELSE IF "memory" \in m THEN "RESOURCE"
  ELSE IF "permission" \in m THEN "PERMISSION"
  ELSE IF "not found" \in m THEN "NOT_FOUND"
  ELSE IF "invalid" \in m THEN "INVALID_INPUT"
  ELSE IF "quota" \in m THEN "QUOTA"
  ELSE "UNKNOWN"

downgradeChainCyclic ==
  [Deep |-> "Standard", Orchestrator |-> "Standard", Batch |-> "Standard",
   Standard |-> "Simple", Simple |-> "Standard"]

\* constructor, lines 1907-1912
downgradeChain ==
  [Deep |-> "Standard", Orchestrator |-> "Standard", Batch |-> "Standard",
   Standard |-> "Simple"]

RetryOptions(maxRetries, baseDelay, maxDelay, retryableErrors, enableDowngrade) ==
  [maxRetries |-> maxRetries, baseDelay |-> baseDelay, maxDelay |-> maxDelay,
   retryableErrors |-> retryableErrors, enableDowngrade |-> enableDowngrade]

\* constructor, lines 1897-1905: the executor built without options
DefaultOptions ==
  RetryOptions(5, 1000, 30000, {"TIMEOUT", "NETWORK", "RATE_LIMIT", "RESOURCE"}, TRUE)

\* RetryExecutor.PRESETS, lines 2273-2297: network, subagent, database
Presets ==
  { RetryOptions(5, 1000, 30000, {"TIMEOUT", "NETWORK", "RATE_LIMIT"}, TRUE),
    RetryOptions(3, 2000, 60000, {"TIMEOUT", "NETWORK", "RESOURCE"}, TRUE),
    RetryOptions(3, 500, 30000, {"NETWORK", "TIMEOUT"}, TRUE) }

\* the executors that are built: without options, from a preset, and with the
\* downgrade switched off
RetryConfigs ==
  {DefaultOptions} \cup Presets \cup {[DefaultOptions EXCEPT !.enableDowngrade = FALSE]}

isRetryableAlways(cfg, errorType) == TRUE

\* isRetryable, lines 2030-2032
isRetryable(cfg, errorType) == errorType \in cfg.retryableErrors

RetriesExhaustedOneEarly(cfg, n) == n >= cfg.maxRetries

\* execute, line 1968: the test made after attempt++
RetriesExhausted(cfg, n) == n > cfg.maxRetries

\* calculateBackoff, lines 2046-2051: the multipliers, in tenths
Multiplier10(errorType) ==
  CASE errorType = "RATE_LIMIT" -> 20
    [] errorType = "TIMEOUT"    -> 15
    [] errorType = "NETWORK"    -> 10
    [] errorType = "RESOURCE"   -> 12
    [] OTHER                    -> 10

\* values of Math.random(), in hundredths
RandomSamples == {0, 50, 99}

\* calculateBackoff, lines 2037-2059, for Math.random() = rnd / 100
calculateBackoff(cfg, n, errorType, rnd) ==
  LET capped == Min(cfg.baseDelay * 2^(n - 1), cfg.maxDelay)
      scaled == (capped * Multiplier10(errorType)) \div 10
  IN (scaled * (1000 + 3 * rnd)) \div 1000

\* what the executor did, in order: the invocations of the operation and how
\* they ended, the sleeps, and the 'downgrade' events emitted (line 2137)
Invoked(tier) == [ev |-> "invoke", tier |-> tier, type |-> "none", from |-> "none"]

Threw(tier, errorType) == [ev |-> "throw", tier |-> tier, type |-> errorType, from |-> "none"]

Slept == [ev |-> "sleep", tier |-> "none", type |-> "none", from |-> "none"]

DowngradeEmitted(from, to) == [ev |-> "downgrade", tier |-> to, type |-> "none", from |-> from]

NoResult ==
  [success |-> FALSE, errorType |-> "none", attempts |-> 0, reason |-> "none",
   from |-> "none", to |-> "none"]

RetryIdle ==
  /\ rxCfg = DefaultOptions /\ rxop = "none" /\ rxpc = "idle" /\ ctxBranch = "none"
  /\ fromBranch = "none" /\ attempt = 0 /\ lastErrorType = "none" /\ multiplier = 1
  /\ delay = 0 /\ rxlog = <<>> /\ rxres = NoResult

\* execute, lines 1922-1925: the call, with context.branch = b
RetryExecuteCall(b) ==
  /\ rxpc = "idle"
  /\ rxop' = "execute" /\ rxpc' = "try" /\ ctxBranch' = b /\ attempt' = 0
  /\ UNCHANGED <<rxCfg, fromBranch, lastErrorType, multiplier, delay, rxlog, rxres>>
  /\ UNCHANGED <<buildVars, slotVars, maVars, extVars>>

\* execute, lines 1926-1940: fn() returned
ExecuteReturns ==
  /\ rxop = "execute" /\ rxpc = "try"
  /\ rxlog' = Append(rxlog, Invoked(ctxBranch))
  /\ rxres' = [NoResult EXCEPT !.success = TRUE, !.attempts = attempt + 1]
  /\ rxpc' = "returned"
  /\ UNCHANGED <<rxCfg, rxop, ctxBranch, fromBranch, attempt, lastErrorType, multiplier, delay>>
  /\ UNCHANGED <<buildVars, slotVars, maVars, extVars>>

\* execute, lines 1942-1997: fn() threw an error of message m; the catch
\* returns, or computes the delay (Math.random() = rnd / 100) and sleeps
ExecuteThrows(m, rnd) ==
  /\ rxop = "execute" /\ rxpc = "try"
  /\ LET errorType == classifyError(m)
         events    == <<Invoked(ctxBranch), Threw(ctxBranch, errorType)>>
     IN /\ attempt' = attempt + 1
        /\ IF ~isRetryable(rxCfg, errorType)
           THEN /\ rxres' = [NoResult EXCEPT !.errorType = errorType, !.attempts = attempt + 1,
                                              !.reason = "not retryable"]
                /\ rxpc' = "returned"
                /\ rxlog' = rxlog \o events
                /\ UNCHANGED delay
           ELSE IF RetriesExhausted(rxCfg, attempt + 1)
           THEN /\ rxres' = [NoResult EXCEPT !.errorType = errorType, !.attempts = attempt + 1,
                                              !.reason = "exhausted"]
                /\ rxpc' = "returned"
                /\ rxlog' = rxlog \o events
                /\ UNCHANGED delay
           ELSE /\ delay' = calculateBackoff(rxCfg, attempt + 1, errorType, rnd)
                /\ rxpc' = "sleep"
                /\ rxlog' = rxlog \o events \o <<Slept>>
                /\ UNCHANGED rxres
  /\ UNCHANGED <<rxCfg, rxop, ctxBranch, fromBranch, lastErrorType, multiplier>>
  /\ UNCHANGED <<buildVars, slotVars, maVars, extVars>>

\* execute, line 1997: the sleep is over; the loop tests attempt <= maxRetries
ExecuteWake ==
  /\ rxop = "execute" /\ rxpc = "sleep"
  /\ rxpc' = "try" /\ delay' = 0
  /\ UNCHANGED <<rxCfg, rxop, ctxBranch, fromBranch, attempt, lastErrorType, multiplier, rxlog,
                 rxres>>
  /\ UNCHANGED <<buildVars, slotVars, maVars, extVars>>

NextRetry ==
  \/ \E b \in Branches : RetryExecuteCall(b)
  \/ ExecuteReturns
  \/ \E m \in ErrorMessages, rnd \in RandomSamples : ExecuteThrows(m, rnd)
  \/ ExecuteWake

\* the error types handleErrorByType is called with: those of classifyError
\* and the two more its switch names
HandledTypes ==
  {classifyError(m) : m \in ErrorMessages} \cup {"TRANSIENT", "LOGIC"}

\* retryWithBackoff, lines 2172-2179: the first iteration up to its sleep
EnterBackoff(mult, rnd) ==
  /\ attempt' = 1 /\ multiplier' = mult
  /\ delay' = calculateBackoff(rxCfg, 1, lastErrorType, rnd) * mult
  /\ rxlog' = Append(rxlog, Slept)
  /\ rxpc' = "backoff"
  /\ UNCHANGED <<fromBranch, rxres>>

\* downgradeAndRetry, lines 2125-2150: up to the invocation under the lower
\* tier, or the failure returned at the lowest tier
EnterDowngrade(b) ==
  /\ IF b \in DOMAIN downgradeChain
     THEN /\ fromBranch' = b /\ ctxBranch' = downgradeChain[b]
          /\ rxlog' = Append(rxlog, DowngradeEmitted(b, downgradeChain[b]))
          /\ rxpc' = "downgraded"
          /\ UNCHANGED rxres
     ELSE /\ rxres' = [NoResult EXCEPT !.reason = "lowest tier"]
          /\ rxpc' = "returned"
          /\ UNCHANGED <<fromBranch, ctxBranch, rxlog>>
  /\ UNCHANGED <<attempt, multiplier, delay>>

\* handleErrorByType, lines 2086-2119: the call, for an error of the given
\* type and context.branch = b ("none": the context names no branch), up to
\* its return or to the first await of the method it hands over to
HandleErrorByTypeCall(errorType, b, rnd) ==
  /\ rxpc = "idle"
  /\ rxop' = "handleErrorByType"
  /\ CASE errorType \in {"TRANSIENT", "TIMEOUT", "NETWORK"} ->
            EnterBackoff(1, rnd) /\ ctxBranch' = b
       [] errorType = "RESOURCE" ->
            IF rxCfg.enableDowngrade /\ b # "none"
            THEN EnterDowngrade(b)
            ELSE /\ rxres' = [NoResult EXCEPT !.reason = "undefined"]
                 /\ rxpc' = "returned" /\ ctxBranch' = b
                 /\ UNCHANGED <<fromBranch, attempt, multiplier, delay, rxlog>>
       [] errorType = "RATE_LIMIT" ->
            EnterBackoff(3, rnd) /\ ctxBranch' = b
       [] errorType \in {"LOGIC", "INVALID_INPUT"} ->
            /\ rxres' = [NoResult EXCEPT !.errorType = errorType, !.reason = "logic"]
            /\ rxpc' = "returned" /\ ctxBranch' = b
            /\ UNCHANGED <<fromBranch, attempt, multiplier, delay, rxlog>>
       [] OTHER ->
            EnterBackoff(1, rnd) /\ ctxBranch' = b
  /\ UNCHANGED <<rxCfg, lastErrorType>>
  /\ UNCHANGED <<buildVars, slotVars, maVars, extVars>>

DowngradedResultUnmarked(from, to) == [NoResult EXCEPT !.success = TRUE]

\* downgradeAndRetry, lines 2153-2159: the result of a successful downgrade
DowngradedResult(from, to) ==
  [NoResult EXCEPT !.success = TRUE, !.reason = "downgraded", !.from = from, !.to = to]

\* downgradeAndRetry, lines 2125-2150, called directly with context.branch = b
\* (test-phase2.js, line 105)
DowngradeAndRetryCall(b) ==
  /\ rxpc = "idle"
  /\ rxop' = "downgradeAndRetry"
  /\ EnterDowngrade(b)
  /\ UNCHANGED <<rxCfg, lastErrorType>>
  /\ UNCHANGED <<buildVars, slotVars, maVars, extVars>>

\* downgradeAndRetry, lines 2152-2160: fn(downgradedContext) returned
DowngradeReturns ==
  /\ rxpc = "downgraded"
  /\ rxlog' = Append(rxlog, Invoked(ctxBranch))
  /\ rxres' = DowngradedResult(fromBranch, ctxBranch)
  /\ rxpc' = "returned"
  /\ UNCHANGED <<rxCfg, rxop, ctxBranch, fromBranch, attempt, lastErrorType, multiplier, delay>>
  /\ UNCHANGED <<buildVars, slotVars, maVars, extVars>>

\* downgradeAndRetry, lines 2160-2166: fn(downgradedContext) threw; the next
\* lower tier, or the error is thrown on
DowngradeThrows(m) ==
  /\ rxpc = "downgraded"
  /\ LET events == <<Invoked(ctxBranch), Threw(ctxBranch, classifyError(m))>>
     IN IF ctxBranch \in DOMAIN downgradeChain
        THEN /\ fromBranch' = ctxBranch /\ ctxBranch' = downgradeChain[ctxBranch]
             /\ rxlog' = rxlog \o events
                            \o <<DowngradeEmitted(ctxBranch, downgradeChain[ctxBranch])>>
             /\ UNCHANGED rxpc
        ELSE /\ rxpc' = "threw"
             /\ rxlog' = rxlog \o events
             /\ UNCHANGED <<fromBranch, ctxBranch>>
  /\ UNCHANGED <<rxCfg, rxop, attempt, lastErrorType, multiplier, delay, rxres>>
  /\ UNCHANGED <<buildVars, slotVars, maVars, extVars>>

\* retryWithBackoff, lines 2179-2183: the sleep is over, fn(context) is called
BackoffWake ==
  /\ rxpc = "backoff"
  /\ rxpc' = "retry" /\ delay' = 0
  /\ UNCHANGED <<rxCfg, rxop, ctxBranch, fromBranch, attempt, lastErrorType, multiplier, rxlog,
                 rxres>>
  /\ UNCHANGED <<buildVars, slotVars, maVars, extVars>>

\* retryWithBackoff, lines 2183-2184: fn(context) returned
BackoffReturns ==
  /\ rxpc = "retry"
  /\ rxlog' = Append(rxlog, Invoked(ctxBranch))
  /\ rxres' = [NoResult EXCEPT !.success = TRUE, !.attempts = attempt]
  /\ rxpc' = "returned"
  /\ UNCHANGED <<rxCfg, rxop, ctxBranch, fromBranch, attempt, lastErrorType, multiplier, delay>>
  /\ UNCHANGED <<buildVars, slotVars, maVars, extVars>>

\* retryWithBackoff, lines 2185-2202: fn(context) threw; the next iteration
\* up to its sleep, or the failure after the last one. The loop goes on
\* whatever the error is: rxlog keeps that the invocation threw, the type of
\* the error is kept in lastErrorType
BackoffThrows(m, rnd) ==
  /\ rxpc = "retry"
  /\ lastErrorType' = classifyError(m)
  /\ IF attempt = rxCfg.maxRetries
     THEN /\ rxres' = [NoResult EXCEPT !.attempts = rxCfg.maxRetries, !.reason = "exhausted"]
          /\ rxlog' = rxlog \o <<Invoked(ctxBranch), Threw(ctxBranch, "any")>>
          /\ rxpc' = "returned"
          /\ UNCHANGED <<attempt, delay>>
     ELSE /\ attempt' = attempt + 1
          /\ delay' = calculateBackoff(rxCfg, attempt + 1, classifyError(m), rnd) * multiplier
          /\ rxlog' = rxlog \o <<Invoked(ctxBranch), Threw(ctxBranch, "any"), Slept>>
          /\ rxpc' = "backoff"
          /\ UNCHANGED rxres
  /\ UNCHANGED <<rxCfg, rxop, ctxBranch, fromBranch, multiplier>>
  /\ UNCHANGED <<buildVars, slotVars, maVars, extVars>>

NextRecover ==
  \/ \E errorType \in HandledTypes, b \in Branches \cup {"none"}, rnd \in RandomSamples :
        HandleErrorByTypeCall(errorType, b, rnd)
  \/ \E b \in Branches \cup {"none"} : DowngradeAndRetryCall(b)
  \/ DowngradeReturns
  \/ \E m \in ErrorMessages : DowngradeThrows(m)
  \/ BackoffWake
  \/ BackoffReturns
  \/ \E m \in ErrorMessages, rnd \in RandomSamples : BackoffThrows(m, rnd)

-----------------------------------------------------------------------------
(* index.js: RetryExecutor, the checkpoints *)

CkptTasks == {"task-001", "task-002"}

\* the opaque data handed to saveCheckpoint
CkptData == {"step-1", "step-2"}

\* the timestamp of a checkpoint is left out: it is only emitted
NoCheckpoint == [data |-> "none", attempt |-> 0]

Resumers == 1..MaxResumers

NoResume == [success |-> FALSE, reason |-> "none", attempts |-> 0]

\* saveCheckpoint, lines 2206-2213
saveCheckpoint(cps, taskId, data) ==
  [cps EXCEPT ![taskId] = [data |-> data, attempt |-> cps[taskId].attempt + 1]]

\* clearCheckpoint, lines 2267-2269, and line 2246
deleteCheckpoint(cps, taskId) == [cps EXCEPT ![taskId] = NoCheckpoint]

onResumeFailureDiscard(cps, taskId) == [cps EXCEPT ![taskId] = NoCheckpoint]

\* resumeFromCheckpoint, lines 2254-2261: the catch leaves this.checkpoints alone
onResumeFailure(cps, taskId) == cps

CkptIdle ==
  /\ checkpoints = [t \in CkptTasks |-> NoCheckpoint]
  /\ rspc = [c \in Resumers |-> "idle"]
  /\ rstask = [c \in Resumers |-> "none"]
  /\ rsckpt = [c \in Resumers |-> NoCheckpoint]
  /\ rsres = [c \in Resumers |-> NoResume]


SaveCheckpoint(t, d) ==
  /\ checkpoints[t].attempt < MaxSaves
  /\ checkpoints' = saveCheckpoint(checkpoints, t, d)
  /\ UNCHANGED <<rspc, rstask, rsckpt, rsres>>
  /\ UNCHANGED <<coreVars, besidesCkpt>>

ClearCheckpoint(t) ==
  /\ checkpoints' = deleteCheckpoint(checkpoints, t)
  /\ UNCHANGED <<rspc, rstask, rsckpt, rsres>>
  /\ UNCHANGED <<coreVars, besidesCkpt>>

\* resumeFromCheckpoint, lines 2229-2239: up to the call of fn, or the
\* failure returned when there is no checkpoint
ResumeCall(c, t) ==
  /\ rspc[c] = "idle"
  /\ rstask' = [rstask EXCEPT ![c] = t]
  /\ IF checkpoints[t] = NoCheckpoint
     THEN /\ rsres' = [rsres EXCEPT ![c] = [NoResume EXCEPT !.reason = "no checkpoint"]]
          /\ rspc' = [rspc EXCEPT ![c] = "returned"]
          /\ rsckpt' = [rsckpt EXCEPT ![c] = NoCheckpoint]
     ELSE /\ rsckpt' = [rsckpt EXCEPT ![c] = checkpoints[t]]
          /\ rspc' = [rspc EXCEPT ![c] = "running"]
          /\ rsres' = [rsres EXCEPT ![c] = NoResume]
  /\ UNCHANGED checkpoints
  /\ UNCHANGED <<coreVars, besidesCkpt>>

\* resumeFromCheckpoint, lines 2239-2253: fn returned
ResumeReturns(c) ==
  /\ rspc[c] = "running"
  /\ checkpoints' = deleteCheckpoint(checkpoints, rstask[c])
  /\ rsres' = [rsres EXCEPT ![c] = [success |-> TRUE, reason |-> "resumed",
                                     attempts |-> rsckpt[c].attempt]]
  /\ rspc' = [rspc EXCEPT ![c] = "returned"]
  /\ rsckpt' = [rsckpt EXCEPT ![c] = NoCheckpoint]
  /\ UNCHANGED rstask
  /\ UNCHANGED <<coreVars, besidesCkpt>>

\* resumeFromCheckpoint, lines 2254-2261: fn threw
ResumeThrows(c) ==
  /\ rspc[c] = "running"
  /\ checkpoints' = onResumeFailure(checkpoints, rstask[c])
  /\ rsres' = [rsres EXCEPT ![c] = [NoResume EXCEPT !.reason = "resume failed"]]
  /\ rspc' = [rspc EXCEPT ![c] = "returned"]
  /\ rsckpt' = [rsckpt EXCEPT ![c] = NoCheckpoint]
  /\ UNCHANGED rstask
  /\ UNCHANGED <<coreVars, besidesCkpt>>

\* the caller has its result and may call again
ResumeDone(c) ==
  /\ rspc[c] = "returned"
  /\ rspc' = [rspc EXCEPT ![c] = "idle"]
  /\ rstask' = [rstask EXCEPT ![c] = "none"]
  /\ rsres' = [rsres EXCEPT ![c] = NoResume]
  /\ UNCHANGED <<checkpoints, rsckpt>>
  /\ UNCHANGED <<coreVars, besidesCkpt>>

NextCheckpoint ==
  \/ \E t \in CkptTasks, d \in CkptData : SaveCheckpoint(t, d)
  \/ \E t \in CkptTasks : ClearCheckpoint(t)
  \/ \E c \in Resumers, t \in CkptTasks : ResumeCall(c, t)
  \/ \E c \in Resumers : ResumeReturns(c)
  \/ \E c \in Resumers : ResumeThrows(c)
  \/ \E c \in Resumers : ResumeDone(c)

-----------------------------------------------------------------------------
(* feishu-callback (unnamed/part_008): the confirmation of a task *)

GateKinds == {"waitForReply", "sendConfirmAndWait"}

\* sendTextConfirm, line 363: waitForReply(chatId, 60);
\* sendConfirmAndWait, line 248: timeout = 60000 ms
GateTimeoutSeconds == 60

\* waitForReply, line 387: setTimeout(check, 3000);
\* sendConfirmAndWait, line 248: checkInterval = 5
GateInterval(kind) == IF kind = "waitForReply" THEN 3 ELSE 5

\* getRecentMessages, lines 329-332: the messages it returns for a chat the
\* user has or has not written into
getRecentMessages(replied) == <<>>

TimeoutOutcomeRejects(kind) == [pc |-> "rejected", res |-> "timeout"]

\* what the wait is settled with once the time is over: waitForReply, lines
\* 382-385; sendConfirmAndWait, lines 271-274
TimeoutOutcome(kind) ==
  IF kind = "waitForReply"
  THEN [pc |-> "resolved", res |-> "confirm"]
  ELSE [pc |-> "rejected", res |-> "timeout"]

GateIdle ==
  /\ gkind = "none" /\ gpc = "idle" /\ gstart = 0 /\ gnow = 0 /\ gwake = 0
  /\ greply = FALSE /\ gres = "none" /\ snext = "none"

\* sendTextConfirm, lines 346-363, and waitForReply, lines 369-371;
\* sendConfirmAndWait, lines 247-253. The message is sent (sendMessage may
\* throw) and the wait starts
GateCall(kind, sent) ==
  /\ gpc = "idle"
  /\ gkind' = kind
  /\ IF sent
     THEN gpc' = "check" /\ gstart' = gnow /\ gres' = gres
     ELSE gpc' = "rejected" /\ gres' = "send failed" /\ gstart' = gstart
  /\ UNCHANGED <<gnow, gwake, greply, snext>>
  /\ UNCHANGED <<coreVars, besidesGate>>

\* waitForReply, lines 373-387: one run of check. For a message found,
\* parseUserReply is handed the message object, message.toLowerCase is not a
\* function (line 295), and check has no catch: its promise rejects and the
\* wait is never settled
WaitForReplyCheck ==
  /\ gkind = "waitForReply" /\ gpc = "check"
  /\ IF Len(getRecentMessages(greply)) > 0
     THEN gpc' = "hung" /\ UNCHANGED <<gres, gwake>>
     ELSE IF gnow - gstart > GateTimeoutSeconds
     THEN gpc' = TimeoutOutcome(gkind).pc /\ gres' = TimeoutOutcome(gkind).res
          /\ UNCHANGED gwake
     ELSE gpc' = "sleep" /\ gwake' = gnow + GateInterval(gkind) /\ UNCHANGED gres
  /\ UNCHANGED <<gkind, gstart, gnow, greply, snext>>
  /\ UNCHANGED <<coreVars, besidesGate>>

\* sendConfirmAndWait, lines 256-282: one run of checkReply; the TypeError
\* of parseUserReply is caught at line 279
ConfirmAndWaitCheck ==
  /\ gkind = "sendConfirmAndWait" /\ gpc = "check"
  /\ IF Len(getRecentMessages(greply)) > 0
     THEN gpc' = "rejected" /\ gres' = "TypeError" /\ UNCHANGED gwake
     ELSE IF gnow - gstart > GateTimeoutSeconds
     THEN gpc' = TimeoutOutcome(gkind).pc /\ gres' = TimeoutOutcome(gkind).res
          /\ UNCHANGED gwake
     ELSE gpc' = "sleep" /\ gwake' = gnow + GateInterval(gkind) /\ UNCHANGED gres
  /\ UNCHANGED <<gkind, gstart, gnow, greply, snext>>
  /\ UNCHANGED <<coreVars, besidesGate>>

\* the timer of setTimeout fires (lines 276 and 387)
GateTimer ==
  /\ gpc = "sleep" /\ gnow >= gwake
  /\ gpc' = "check"
  /\ UNCHANGED <<gkind, gstart, gnow, gwake, greply, gres, snext>>
  /\ UNCHANGED <<coreVars, besidesGate>>

\* one second passes; the clock is read from the call on
GateTick ==
  /\ gpc # "idle" /\ gnow < MaxGateClock
  /\ gnow' = gnow + 1
  /\ UNCHANGED <<gkind, gpc, gstart, gwake, greply, gres, snext>>
  /\ UNCHANGED <<coreVars, besidesGate>>

\* the user writes into the chat while the wait is on
UserReplies ==
  /\ gpc \in {"check", "sleep"} /\ ~greply /\ gnow > gstart
  /\ greply' = TRUE
  /\ UNCHANGED <<gkind, gpc, gstart, gnow, gwake, gres, snext>>
  /\ UNCHANGED <<coreVars, besidesGate>>

\* index.js, lines 947-966 and 1051: executeSingle after the await
SingleAfterConfirm ==
  /\ gpc \in {"resolved", "rejected"}
  /\ snext' = IF gpc = "rejected" THEN "catch"
              ELSE IF gres = "cancel" THEN "USER_CANCELLED"
              ELSE IF gres = "downgrade" THEN "executeSimple"
              ELSE "waitForSlot"
  /\ gpc' = "done"
  /\ UNCHANGED <<gkind, gstart, gnow, gwake, greply, gres>>
  /\ UNCHANGED <<coreVars, besidesGate>>

NextGate ==
  \/ \E kind \in GateKinds, sent \in BOOLEAN : GateCall(kind, sent)
  \/ WaitForReplyCheck
  \/ ConfirmAndWaitCheck
  \/ GateTimer
  \/ GateTick
  \/ UserReplies
  \/ SingleAfterConfirm

-----------------------------------------------------------------------------
(* execution-monitor.js: the life of a watched task *)

MonTasks == {"task-1", "task-2"}

\* taskInfo.maxRetries || 3 (line 73)
MonRetryBudgets == {1, 3}

MonIdle ==
  /\ mstatus = [t \in MonTasks |-> "none"]
  /\ mend = [t \in MonTasks |-> 0]
  /\ mretries = [t \in MonTasks |-> 0]
  /\ mmax = [t \in MonTasks |-> 0]
  /\ mcancels = [t \in MonTasks |-> 0]
  /\ mnow = 1

\* registerTask, lines 61-85
MonRegisterTask(t, maxRetries) ==
  /\ mstatus[t] = "none"
  /\ mstatus' = [mstatus EXCEPT ![t] = "pending"]
  /\ mend' = [mend EXCEPT ![t] = 0]
  /\ mretries' = [mretries EXCEPT ![t] = 0]
  /\ mmax' = [mmax EXCEPT ![t] = maxRetries]
  /\ UNCHANGED <<mcancels, mnow>>
  /\ UNCHANGED <<coreVars, besidesMon>>

\* startTask, lines 90-102 (it throws for a task that is not registered)
MonStartTask(t) ==
  /\ mstatus[t] # "none"
  /\ mstatus' = [mstatus EXCEPT ![t] = "running"]
  /\ UNCHANGED <<mend, mretries, mmax, mcancels, mnow>>
  /\ UNCHANGED <<coreVars, besidesMon>>

\* completeTask, lines 137-152
MonCompleteTask(t) ==
  /\ mstatus[t] # "none"
  /\ mstatus' = [mstatus EXCEPT ![t] = "completed"]
  /\ mend' = [mend EXCEPT ![t] = mnow]
  /\ UNCHANGED <<mretries, mmax, mcancels, mnow>>
  /\ UNCHANGED <<coreVars, besidesMon>>

\* failTask, lines 157-185, with attemptRecovery, lines 207-231
MonFailTask(t, recoverable) ==
  /\ mstatus[t] # "none"
  /\ mend' = [mend EXCEPT ![t] = mnow]
  /\ IF recoverable /\ mretries[t] < mmax[t]
     THEN /\ mretries' = [mretries EXCEPT ![t] = mretries[t] + 1]
          /\ mstatus' = [mstatus EXCEPT ![t] = "pending"]
     ELSE /\ mstatus' = [mstatus EXCEPT ![t] = "failed"]
          /\ UNCHANGED mretries
  /\ UNCHANGED <<mmax, mcancels, mnow>>
  /\ UNCHANGED <<coreVars, besidesMon>>

\* cancelTask, line 192: the tasks it returns false for
MonCancelSkips(t) == mstatus[t] \in {"none", "completed"}

\* cancelTask, lines 190-202
MonCancelTask(t) ==
  /\ mcancels[t] < MaxCancels
  /\ IF MonCancelSkips(t)
     THEN UNCHANGED <<mstatus, mend, mcancels>>
     ELSE /\ mstatus' = [mstatus EXCEPT ![t] = "cancelled"]
          /\ mend' = [mend EXCEPT ![t] = mnow]
          /\ mcancels' = [mcancels EXCEPT ![t] = mcancels[t] + 1]
  /\ UNCHANGED <<mretries, mmax, mnow>>
  /\ UNCHANGED <<coreVars, besidesMon>>

\* time passes
MonTick ==
  /\ mnow < MaxClock
  /\ mnow' = mnow + 1
  /\ UNCHANGED <<mstatus, mend, mretries, mmax, mcancels>>
  /\ UNCHANGED <<coreVars, besidesMon>>

NextMonitor ==
  \/ \E t \in MonTasks, maxRetries \in MonRetryBudgets : MonRegisterTask(t, maxRetries)
  \/ \E t \in MonTasks : MonStartTask(t)
  \/ \E t \in MonTasks : MonCompleteTask(t)
  \/ \E t \in MonTasks, recoverable \in BOOLEAN : MonFailTask(t, recoverable)
  \/ \E t \in MonTasks : MonCancelTask(t)
  \/ MonTick

-----------------------------------------------------------------------------
(* command-queue.js: the queue of commands *)

QTasks == 1..MaxQueued

\* the calls of processQueue that may be in progress at once
Acts == 1..MaxActs

\* options.priority || 0 (line 73)
QPriorities == {0, 1}

\* options.maxRetries || 0 (line 80)
QRetryBudgets == {0, 1}

\* a handler that catches what its sending throws (feishu-queue, lines
\* 122-176), and one that does not
NotifierKinds == {"sound", "failing"}

NoStats == [totalProcessed |-> 0, totalFailed |-> 0, totalCancelled |-> 0]

\* the constructor, lines 23-49
QueueIdle ==
  /\ qqueue = <<>> /\ currentTask = 0 /\ processing = FALSE
  /\ stats = NoStats
  /\ notificationHandler = "none"
  /\ qstatus = [t \in QTasks |-> "none"]
  /\ qprio = [t \in QTasks |-> 0]
  /\ qmax = [t \in QTasks |-> 0]
  /\ qcreated = [t \in QTasks |-> 0]
  /\ autoStart = TRUE /\ qstray = 0
  /\ qretry = [t \in QTasks |-> 0]
  /\ qerror = FALSE
  /\ epc = [t \in QTasks |-> "none"]
  /\ apc = [a \in Acts |-> "idle"]
  /\ atask = [a \in Acts |-> 0]

\* the fields of the queue that processQueue and enqueue write
QueueState ==
  [queue |-> qqueue, currentTask |-> currentTask, processing |-> processing,
   stats |-> stats, status |-> qstatus, retryCount |-> qretry, error |-> qerror,
   apc |-> apc, atask |-> atask]

SetQueueState(q) ==
  /\ qqueue' = q.queue /\ currentTask' = q.currentTask /\ processing' = q.processing
  /\ stats' = q.stats /\ qstatus' = q.status /\ qretry' = q.retryCount
  /\ qerror' = q.error /\ apc' = q.apc /\ atask' = q.atask

\* this.config.enableNotification && this.notificationHandler (lines 99, 141,
\* 175, 194, 226, 244; enableNotification is true unless it is switched off)
Notifies == notificationHandler # "none"

\* a call of processQueue is over
endAct(q, a) == [q EXCEPT !.apc[a] = "idle", !.atask[a] = 0]

\* processQueue, lines 123-148: up to the first await
startProcess(q, a) ==
  IF q.processing \/ q.queue = <<>>
  THEN endAct(q, a)
  ELSE LET task == Head(q.queue)
       IN [q EXCEPT !.processing = TRUE,
                    !.queue = Tail(q.queue),
                    !.currentTask = task,
                    !.status[task] = "running",
                    !.atask[a] = task,
                    !.apc[a] = IF Notifies THEN "started" ELSE "handler"]

\* processQueue, lines 221-250: after the task
afterTask(q, a) ==
  LET q1 == [q EXCEPT !.currentTask = 0]
  IN IF q1.queue # <<>>
     THEN [q1 EXCEPT !.apc[a] = IF Notifies THEN "queue-update" ELSE "nextDelay"]
     ELSE LET q2 == [q1 EXCEPT !.processing = FALSE]
          IN IF Notifies THEN [q2 EXCEPT !.apc[a] = "queue-empty"] ELSE endAct(q2, a)

\* processQueue, lines 204-218: the retry of a failed task
retryLogic(q, a) ==
  LET task == q.atask[a]
  IN IF q.retryCount[task] < qmax[task]
     THEN [q EXCEPT !.retryCount[task] = @ + 1,
                    !.status[task] = "pending",
                    !.queue = <<task>> \o @,
                    !.apc[a] = IF notificationHandler # "none" THEN "retry"
                               ELSE "retryDelay"]
     ELSE afterTask(q, a)

\* processQueue, lines 185-201: the catch clause around the task
innerCatch(q, a) ==
  LET task == q.atask[a]
      q1 == [q EXCEPT !.status[task] = "failed", !.stats.totalFailed = @ + 1]
  IN IF Notifies THEN [q1 EXCEPT !.apc[a] = "failed"] ELSE retryLogic(q1, a)

\* processQueue, lines 252-257: the catch clause around the whole body
outerCatch(q, a) ==
  endAct([q EXCEPT !.processing = FALSE, !.currentTask = 0, !.error = TRUE], a)

\* processQueue, lines 167-183: the task handler returned
taskCompleted(q, a) ==
  LET task == q.atask[a]
      q1 == [q EXCEPT !.status[task] = "completed", !.stats.totalProcessed = @ + 1]
  IN IF Notifies THEN [q1 EXCEPT !.apc[a] = "completed"] ELSE afterTask(q1, a)

\* what processQueue does when the notification it awaits has returned
onNotified(q, a) ==
  CASE q.apc[a] = "started" -> [q EXCEPT !.apc[a] = "handler"]
    [] q.apc[a] = "completed" -> afterTask(q, a)
    [] q.apc[a] = "failed" -> retryLogic(q, a)
    [] q.apc[a] = "retry" -> [q EXCEPT !.apc[a] = "retryDelay"]
    [] q.apc[a] = "queue-update" -> [q EXCEPT !.apc[a] = "nextDelay"]
    [] q.apc[a] = "queue-empty" -> endAct(q, a)

\* what processQueue does when the notification it awaits has thrown: the one
\* at line 176 stands in the try block of the task, the others do not
onNotificationThrew(q, a) ==
  IF q.apc[a] = "completed" THEN innerCatch(q, a) ELSE outerCatch(q, a)

\* the notifications processQueue awaits
QueueNotifications == {"started", "completed", "failed", "retry", "queue-update",
                       "queue-empty"}

\* enqueue, lines 89-94: where the task goes
insertIndex(waiting, priority) ==
  LET lower == {i \in 1..Len(waiting) : qprio[waiting[i]] < priority}
  IN IF lower = {} THEN 0 ELSE CHOOSE i \in lower : \A j \in lower : i <= j

\* enqueue, lines 112-115
enqueueTail(q) ==
  IF ~q.processing /\ autoStart
  THEN startProcess(q, CHOOSE a \in Acts : q.apc[a] = "idle")
  ELSE q

\* setNotificationHandler, lines 61-63
SetNotificationHandler(kind) ==
  /\ notificationHandler = "none"
  /\ notificationHandler' = kind
  /\ UNCHANGED <<qqueue, currentTask, processing, stats, qstatus, qprio, qmax, qcreated, autoStart, qstray, qretry,
                 qerror, epc, apc, atask>>
  /\ UNCHANGED <<coreVars, besidesQueue>>

\* enqueue, lines 68-110: up to the notification; the queue never holds
\* maxQueueSize tasks here
Enqueue(t, priority, maxRetries) ==
  /\ epc[t] = "none"
  /\ \E a \in Acts : apc[a] = "idle"
  /\ LET i == insertIndex(qqueue, priority)
         inserted == IF i = 0 THEN Append(qqueue, t)
                     ELSE SubSeq(qqueue, 1, i - 1) \o <<t>> \o SubSeq(qqueue, i, Len(qqueue))
         q == [QueueState EXCEPT !.queue = inserted, !.status[t] = "pending"]
     IN IF Notifies
        THEN /\ SetQueueState(q)
             /\ epc' = [epc EXCEPT ![t] = "notify"]
        ELSE /\ SetQueueState(enqueueTail(q))
             /\ epc' = [epc EXCEPT ![t] = "returned"]
  /\ qprio' = [qprio EXCEPT ![t] = priority]
  /\ qmax' = [qmax EXCEPT ![t] = maxRetries]
  /\ qcreated' = [qcreated EXCEPT ![t] = Cardinality({u \in QTasks : epc[u] # "none"}) + 1]
  /\ UNCHANGED <<notificationHandler, autoStart, qstray>>
  /\ UNCHANGED <<coreVars, besidesQueue>>

\* enqueue, lines 101-117: the notification returned or threw
EnqueueNotified(t, ok) ==
  /\ epc[t] = "notify"
  /\ ok \/ notificationHandler = "failing"
  /\ processing \/ \E a \in Acts : apc[a] = "idle"
  /\ IF ok
     THEN /\ SetQueueState(enqueueTail(QueueState))
          /\ epc' = [epc EXCEPT ![t] = "returned"]
     ELSE /\ epc' = [epc EXCEPT ![t] = "rejected"]
          /\ UNCHANGED <<qqueue, currentTask, processing, stats, qstatus, qretry, qerror,
                         apc, atask>>
  /\ UNCHANGED <<qprio, qmax, qcreated, autoStart, qstray, notificationHandler>>
  /\ UNCHANGED <<coreVars, besidesQueue>>

\* processQueue: the notification it awaits returned or threw
ProcessNotified(a, ok) ==
  /\ apc[a] \in QueueNotifications
  /\ ok \/ notificationHandler = "failing"
  /\ SetQueueState(IF ok THEN onNotified(QueueState, a)
                   ELSE onNotificationThrew(QueueState, a))
  /\ UNCHANGED <<qprio, qmax, qcreated, autoStart, qstray, notificationHandler, epc>>
  /\ UNCHANGED <<coreVars, besidesQueue>>

\* processQueue, lines 162-165: the task handler returned or threw
TaskSettles(a, returned) ==
  /\ apc[a] = "handler"
  /\ SetQueueState(IF returned THEN taskCompleted(QueueState, a)
                   ELSE innerCatch(QueueState, a))
  /\ UNCHANGED <<qprio, qmax, qcreated, autoStart, qstray, notificationHandler, epc>>
  /\ UNCHANGED <<coreVars, besidesQueue>>

\* processQueue, lines 158-165: the timeout won the race; the call of the
\* task handler goes on
TaskTimesOut(a) ==
  /\ apc[a] = "handler"
  /\ qstray < MaxStray
  /\ SetQueueState(innerCatch(QueueState, a))
  /\ qstray' = qstray + 1
  /\ UNCHANGED <<qprio, qmax, qcreated, autoStart, notificationHandler, epc>>
  /\ UNCHANGED <<coreVars, besidesQueue>>

\* a call of the task handler settles after its timeout
StrayHandlerSettles ==
  /\ qstray > 0
  /\ qstray' = qstray - 1
  /\ UNCHANGED <<qqueue, currentTask, processing, stats, notificationHandler, qstatus, qprio,
                 qmax, qcreated, autoStart, qretry, qerror, epc, apc, atask>>
  /\ UNCHANGED <<coreVars, besidesQueue>>

\* pause, lines 367-370
Pause ==
  /\ autoStart
  /\ autoStart' = FALSE
  /\ UNCHANGED <<qqueue, currentTask, processing, stats, notificationHandler, qstatus, qprio,
                 qmax, qcreated, qstray, qretry, qerror, epc, apc, atask>>
  /\ UNCHANGED <<coreVars, besidesQueue>>

\* resume, lines 375-382
Resume ==
  /\ processing \/ \E a \in Acts : apc[a] = "idle"
  /\ autoStart' = TRUE
  /\ IF ~processing /\ qqueue # <<>>
     THEN SetQueueState(startProcess(QueueState, CHOOSE a \in Acts : apc[a] = "idle"))
     ELSE UNCHANGED <<qqueue, currentTask, processing, stats, qstatus, qretry, qerror,
                      apc, atask>>
  /\ UNCHANGED <<qprio, qmax, qcreated, qstray, notificationHandler, epc>>
  /\ UNCHANGED <<coreVars, besidesQueue>>

\* processQueue, lines 217 and 237-239: a delay is over
DelayEnds(a) ==
  /\ apc[a] \in {"retryDelay", "nextDelay"}
  /\ SetQueueState(IF apc[a] = "retryDelay" THEN afterTask(QueueState, a)
                   ELSE startProcess([QueueState EXCEPT !.processing = FALSE], a))
  /\ UNCHANGED <<qprio, qmax, qcreated, autoStart, qstray, notificationHandler, epc>>
  /\ UNCHANGED <<coreVars, besidesQueue>>

\* cancelTask, lines 295-301: the branch of the current task
cancelsCurrent(t) == currentTask # 0 /\ currentTask = t

\* cancelTask, lines 293-315
QueueCancelTask(t) ==
  /\ stats.totalCancelled < MaxCancels
  /\ IF cancelsCurrent(t)
     THEN /\ qstatus' = [qstatus EXCEPT ![t] = "cancelled"]
          /\ stats' = [stats EXCEPT !.totalCancelled = @ + 1]
          /\ UNCHANGED qqueue
     ELSE IF \E i \in 1..Len(qqueue) : qqueue[i] = t
     THEN /\ qstatus' = [qstatus EXCEPT ![t] = "cancelled"]
          /\ qqueue' = SelectSeq(qqueue, LAMBDA x : x # t)
          /\ stats' = [stats EXCEPT !.totalCancelled = @ + 1]
     ELSE UNCHANGED <<qstatus, qqueue, stats>>
  /\ UNCHANGED <<currentTask, processing, qprio, qmax, qcreated, autoStart, qstray, qretry, qerror, notificationHandler,
                 epc, apc, atask>>
  /\ UNCHANGED <<coreVars, besidesQueue>>

\* the steps the queue takes by itself once a task is in it
QueueStep ==
  \/ \E t \in QTasks, ok \in BOOLEAN : EnqueueNotified(t, ok)
  \/ \E a \in Acts, ok \in BOOLEAN : ProcessNotified(a, ok)
  \/ \E a \in Acts, returned \in BOOLEAN : TaskSettles(a, returned)
  \/ \E a \in Acts : TaskTimesOut(a)
  \/ StrayHandlerSettles
  \/ \E a \in Acts : DelayEnds(a)

NextQueue ==
  \/ \E kind \in NotifierKinds : SetNotificationHandler(kind)
  \/ \E t \in QTasks, priority \in QPriorities, maxRetries \in QRetryBudgets :
       Enqueue(t, priority, maxRetries)
  \/ QueueStep
  \/ \E t \in QTasks : QueueCancelTask(t)

\* enqueue, pause and resume on a queue whose notification handler, if one
\* is set, does not throw
NextQueueOps ==
  \/ SetNotificationHandler("sound")
  \/ \E t \in QTasks, priority \in QPriorities, maxRetries \in QRetryBudgets :
       Enqueue(t, priority, maxRetries)
  \/ QueueStep
  \/ Pause
  \/ Resume

-----------------------------------------------------------------------------
(* scheduler.js: the classification of a task text *)

\* A task text, reduced to what fastRules reads of it: the three marker
\* regexes, the literals "10个" / "20个", the literals "[文件]" / "[附件]",
\* the length (0: < 100, 1: = 100, 2: > 100) and the word count
\* (0: < 20, 1: >= 20)
ClassTexts ==
  [deep : BOOLEAN, orchestrator : BOOLEAN, batch : BOOLEAN, count : BOOLEAN,
   attachment : BOOLEAN, len : 0..2, words : 0..1]

NoClassText == [deep |-> FALSE, orchestrator |-> FALSE, batch |-> FALSE, count |-> FALSE,
                attachment |-> FALSE, len |-> 0, words |-> 0]

NoVerdict == [branch |-> "none", confidence |-> 0]

\* fastRules, lines 20-50; the confidence in hundredths
fastRules(t) ==
  IF t.deep /\ t.len = 2 THEN [branch |-> "Deep", confidence |-> 80]
  ELSE IF t.orchestrator THEN [branch |-> "Orchestrator", confidence |-> 70]
  ELSE IF t.batch \/ t.count THEN [branch |-> "Batch", confidence |-> 75]
  ELSE IF t.len = 0 /\ ~t.attachment /\ t.words = 0
       THEN [branch |-> "Simple", confidence |-> 85]
  ELSE [branch |-> "Standard", confidence |-> 60]

ClassIdle == ftext = NoClassText /\ fpc = "idle" /\ fres = NoVerdict

\* classifyTask, lines 55-85: the verdict of the fast rules is returned when
\* its confidence is at least 0.6, as it always is
ClassifyTask ==
  /\ fpc = "classifyTask"
  /\ fastRules(ftext).confidence >= 60
  /\ fres' = fastRules(ftext)
  /\ fpc' = "returned"
  /\ UNCHANGED ftext
  /\ UNCHANGED <<coreVars, besidesClass>>

\* the caller reads the verdict
ClassifyDone ==
  /\ fpc = "returned"
  /\ fpc' = "done"
  /\ UNCHANGED <<ftext, fres>>
  /\ UNCHANGED <<coreVars, besidesClass>>

NextClassify == ClassifyTask \/ ClassifyDone

-----------------------------------------------------------------------------
(* result-aggregator (unnamed/part_009): aggregate *)

\* A text is the sequence of its words and separators. The payloads that
\* subtasks return: two strings that share a word, and an object.
Payloads ==
  { [type |-> "string", val |-> <<"alpha", "beta">>],
    [type |-> "string", val |-> <<"alpha", "gamma">>],
    [type |-> "object", val |-> <<"c">>] }

NoMetadata == [confidence |-> 0, agentName |-> "none"]

\* metadata.confidence in tenths (0: not given), metadata.agentName
Metadatas == [confidence : {0, 9}, agentName : {"none", "w1"}]

AggInputs == [result : Payloads, metadata : Metadatas]

AggLists == UNION {[1..n -> AggInputs] : n \in 1..MaxResults}

AggStrategies == {"concat", "smart_merge"}

NoAggregate ==
  [success |-> FALSE, result |-> [type |-> "none", val |-> <<>>], source |-> "none",
   metadata |-> NoMetadata, count |-> 0, uniqueCount |-> 0, conflictCount |-> 0]

\* JSON.stringify(value)
stringify(val) == <<"{">> \o val \o <<"}">>

\* JSON.stringify(value, null, 2)
stringifyIndented(val) == <<"{", "\n  ">> \o val \o <<"\n", "}">>

\* lines 92-96 and 222-224: the key of a result
resultText(r) == IF r.result.type = "string" THEN r.result.val ELSE stringify(r.result.val)

\* Array.prototype.join
RECURSIVE join(_, _)
join(texts, separator) ==
  IF texts = <<>> THEN <<>>
  ELSE IF Len(texts) = 1 THEN texts[1]
  ELSE texts[1] \o separator \o join(Tail(texts), separator)

AggSeparator == <<"\n\n", "---", "\n\n">>

\* aggregateByConcat, lines 91-104
aggregateByConcat(rs) ==
  [NoAggregate EXCEPT !.success = TRUE,
                      !.result = [type |-> "string",
                                  val |-> join([i \in 1..Len(rs) |-> resultText(rs[i])],
                                               AggSeparator)],
                      !.source = "concat",
                      !.count = Len(rs)]

\* deduplicate, lines 219-231
RECURSIVE deduplicateFrom(_, _)
deduplicateFrom(rs, seen) ==
  IF rs = <<>> THEN <<>>
  ELSE IF resultText(Head(rs)) \in seen THEN deduplicateFrom(Tail(rs), seen)
  ELSE <<Head(rs)>> \o deduplicateFrom(Tail(rs), seen \cup {resultText(Head(rs))})

deduplicate(rs) == deduplicateFrom(rs, {})

\* calculateSimilarity, lines 286-298, as the pair (intersection, union)
calculateSimilarity(a, b) ==
  [common |-> Cardinality(Range(resultText(a)) \cap Range(resultText(b))),
   all |-> Cardinality(Range(resultText(a)) \cup Range(resultText(b)))]

\* detectConflicts, lines 236-257, with conflictThreshold 0.8: the pairs found
detectConflicts(rs) ==
  {p \in (1..Len(rs)) \X (1..Len(rs)) :
     /\ p[1] < p[2]
     /\ LET s == calculateSimilarity(rs[p[1]], rs[p[2]])
        IN 10 * s.common > 3 * s.all /\ 10 * s.common < 8 * s.all}

\* a.metadata?.confidence || 0.5, in tenths
confidenceOf(r) == IF r.metadata.confidence = 0 THEN 5 ELSE r.metadata.confidence

\* resolveConflicts, lines 262-269: a stable sort, highest confidence first
resolveConflicts(rs) ==
  Concat([k \in 1..11 |-> SelectSeq(rs, LAMBDA r : confidenceOf(r) = 11 - k)])

Digits == <<"1", "2", "3", "4", "5">>

\* mergeTexts, lines 274-284
mergeTexts(rs) ==
  join([i \in 1..Len(rs) |->
          <<"[", IF rs[i].metadata.agentName = "none" THEN "Agent"
                 ELSE rs[i].metadata.agentName, " ", Digits[i], "]", "\n">>
          \o (IF rs[i].result.type = "string" THEN rs[i].result.val
              ELSE stringifyIndented(rs[i].result.val))],
       AggSeparator)

\* aggregateBySmartMerge, lines 109-130
aggregateBySmartMerge(rs) ==
  LET uniqueResults == deduplicate(rs)
  IN [NoAggregate EXCEPT !.success = TRUE,
                         !.result = [type |-> "string",
                                     val |-> mergeTexts(resolveConflicts(uniqueResults))],
                         !.source = "smart_merge",
                         !.count = Len(rs),
                         !.uniqueCount = Len(uniqueResults),
                         !.conflictCount = Cardinality(detectConflicts(uniqueResults))]

\* aggregate, lines 67-85: the strategies concat and smart_merge
aggregateByStrategy(rs, strategy) ==
  IF strategy = "smart_merge" THEN aggregateBySmartMerge(rs) ELSE aggregateByConcat(rs)

\* a list of one result merged like a longer one
aggregateSingleMerged(rs, strategy) == aggregateByStrategy(rs, strategy)

\* aggregate, lines 56-63: a list of one result
aggregateSingle(rs, strategy) ==
  [NoAggregate EXCEPT !.success = TRUE, !.result = rs[1].result, !.source = "single",
                      !.metadata = rs[1].metadata]

\* aggregate, lines 46-86
aggregate(rs, strategy) ==
  IF Len(rs) = 0 THEN NoAggregate
  ELSE IF Len(rs) = 1 THEN aggregateSingle(rs, strategy)
  ELSE aggregateByStrategy(rs, strategy)

AggIdle ==
  /\ agStrategy = "none" /\ agResults = <<>> /\ agpc = "idle"
  /\ agFirst = NoAggregate /\ agSecond = NoAggregate

\* aggregate is called on the results list
AggregateList ==
  /\ agpc = "aggregate"
  /\ agFirst' = aggregate(agResults, agStrategy)
  /\ agpc' = "again"
  /\ UNCHANGED <<agStrategy, agResults, agSecond>>
  /\ UNCHANGED <<coreVars, besidesAgg>>

\* aggregate is called on the list that holds what the first call returned
AggregateAgain ==
  /\ agpc = "again"
  /\ agSecond' = aggregate(<<[result |-> agFirst.result, metadata |-> agFirst.metadata]>>,
                           agStrategy)
  /\ agpc' = "done"
  /\ UNCHANGED <<agStrategy, agResults, agFirst>>
  /\ UNCHANGED <<coreVars, besidesAgg>>

NextAggregate == AggregateList \/ AggregateAgain

-----------------------------------------------------------------------------
(* index.js: execute, executeMultiAgent and executeSubtask nested *)

\* shouldUseMultiAgent, lines 711-714
shouldUseMultiAgent(t) ==
  analyzeComplexity(t).shouldDecompose /\ analyzeComplexity(t).estimatedSubtasks > 2

\* whether a marker of the text is in a part of it
Kept(marker) == IF marker THEN BOOLEAN ELSE {FALSE}

\* task.substring(0, n) of task-decomposer.js lines 197 and 269, with the
\* name of the step or "执行: " before it: a short text; of the markers, of
\* the first number and of "文件" it holds those that stand in the first n
\* characters of t
Truncated(t) ==
  {u \in [steps : Kept(t.steps), targets : Kept(t.targets), deep : Kept(t.deep),
          deps : Kept(t.deps), len : {0}, num : {-1, t.num}, file : Kept(t.file),
          fileNum : Kept(t.fileNum)] :
     u.fileNum => (u.file /\ u.num >= 0)}

\* the task field of the subtasks that decompose makes of text t
\* (task-decomposer.js): line 83 for the single node; lines 137, 150 and 166
\* "扫描并列出所有目标文件", "处理第<i>批文件", "汇总所有文件处理结果"; line
\* 197 for the steps; lines 218-242, "深度分析和挖掘" for deep_analysis;
\* lines 261-277, "执行: ..." for execute
subtaskTexts(t, id) ==
  IF id = "subtask_1" THEN {t}
  ELSE IF id \in {"scan_files", "aggregate_results"}
       THEN {[NoText EXCEPT !.targets = TRUE, !.file = TRUE]}
  ELSE IF id \in Range(ProcessIds)
       THEN {[NoText EXCEPT !.file = TRUE, !.fileNum = TRUE,
                            !.num = CHOOSE i \in 1..Len(ProcessIds) : ProcessIds[i] = id]}
  ELSE IF id \in {"step_1", "step_2", "step_3", "step_4", "execute"} THEN Truncated(t)
  ELSE IF id = "deep_analysis" THEN {[NoText EXCEPT !.deep = TRUE]}
  ELSE {NoText}

\* the texts handed to execute
NestTexts == {t \in Texts : t.len = 0 /\ t.num \in {-1, 1}}

\* an executeMultiAgent call: its text, the subtask of its DAG that comes
\* next and the subtasks that completed (executeDAG, line 832)
Frame(t) == [text |-> t, next |-> 1, completed |-> {}]

Top == xstack[Len(xstack)]

\* decompose, lines 72-109: the subtasks of the DAG of text t
subtasksOf(t) == IF ~analyzeComplexity(t).shouldDecompose THEN SingleNode ELSE Template(t)

TopSubtasks == subtasksOf(Top.text)

NestIdle == xstack = <<>> /\ xpc = "idle"

\* execute, lines 900-911, called with a text: executeMultiAgent when
\* shouldUseMultiAgent says so, else executeSingle, which returns
Execute(t) ==
  /\ xpc = "idle"
  /\ IF shouldUseMultiAgent(t)
     THEN xstack' = <<Frame(t)>> /\ xpc' = "multi"
     ELSE xstack' = xstack /\ xpc' = "returned"
  /\ UNCHANGED <<coreVars, besidesNest>>

\* the current subtask of the innermost call is done with
Advance(stack, isCompleted) ==
  LET f  == stack[Len(stack)]
      id == subtasksOf(f.text)[f.next].id
  IN [stack EXCEPT ![Len(stack)] =
        [f EXCEPT !.next = @ + 1,
                  !.completed = IF isCompleted THEN @ \cup {id} ELSE @]]

\* executeDAG, lines 812-820: a subtask one of whose dependencies has not
\* completed is not started
SubtaskLeftOut ==
  /\ xpc = "multi" /\ Top.next <= Len(TopSubtasks)
  /\ ~(Range(TopSubtasks[Top.next].dependsOn) \subseteq Top.completed)
  /\ xstack' = Advance(xstack, FALSE)
  /\ UNCHANGED xpc
  /\ UNCHANGED <<coreVars, besidesNest>>

\* executeDAG, line 829, executeSubtask, lines 867-895, and execute, lines
\* 900-911: the subtasks of a DAG are followed one after the other.
\* executeSubtask hands execute the text of the subtask in its first
\* argument, so options is {} and shouldUseMultiAgent is asked about the
\* text: executeMultiAgent again, or executeSingle, after which the
\* executeSubtask call returns (returned) or throws as its retry does.
ExecuteSubtask ==
  /\ xpc = "multi" /\ Top.next <= Len(TopSubtasks)
  /\ Range(TopSubtasks[Top.next].dependsOn) \subseteq Top.completed
  /\ \E u \in subtaskTexts(Top.text, TopSubtasks[Top.next].id), returned \in BOOLEAN :
        IF shouldUseMultiAgent(u)
        THEN /\ Len(xstack) < MaxDepth
             /\ returned
             /\ xstack' = Append(xstack, Frame(u))
        ELSE xstack' = Advance(xstack, returned)
  /\ UNCHANGED xpc
  /\ UNCHANGED <<coreVars, besidesNest>>

\* executeMultiAgent, lines 736-758: executeDAG is through with the groups
\* and the call returns its result, to executeSubtask when it is nested
MultiAgentReturns ==
  /\ xpc = "multi" /\ Top.next > Len(TopSubtasks)
  /\ IF Len(xstack) = 1
     THEN xstack' = <<>> /\ xpc' = "returned"
     ELSE /\ xstack' = Advance(SubSeq(xstack, 1, Len(xstack) - 1), TRUE)
          /\ xpc' = xpc
  /\ UNCHANGED <<coreVars, besidesNest>>

NextNest ==
  \/ \E t \in NestTexts : Execute(t)
  \/ SubtaskLeftOut
  \/ ExecuteSubtask
  \/ MultiAgentReturns

-----------------------------------------------------------------------------
(* Properties of task-decomposer.js *)

RECURSIVE Closure(_, _, _)
Closure(R, E, n) ==
  IF n = 0 THEN R
  ELSE Closure(R \cup {<<x[1][1], x[2][2]>> : x \in {y \in R \X E : y[1][2] = y[2][1]}},
               E, n - 1)

Edges(sts) ==
  UNION {{<<sts[i].dependsOn[k], sts[i].id>> : k \in 1..Len(sts[i].dependsOn)} :
           i \in 1..Len(sts)}

HasCycle(sts) ==
  LET E == {e \in Edges(sts) : e[1] \in Ids(sts)}
      R == Closure(E, E, Len(sts))
  IN \E id \in Ids(sts) : <<id, id>> \in R

GroupOf(groups, id) == {g \in 1..Len(groups) : id \in Range(groups[g])}

Occurrences(groups, id) ==
  Cardinality(UNION {{<<g, k>> : k \in {j \in 1..Len(groups[g]) : groups[g][j] = id}} :
                       g \in 1..Len(groups)})

ValidPartition(sts, groups) ==
  \A i \in 1..Len(sts) :
     /\ Occurrences(groups, sts[i].id) = 1
     /\ \A k \in 1..Len(sts[i].dependsOn) :
          \E g \in GroupOf(groups, sts[i].dependsOn[k]) :
             \A h \in GroupOf(groups, sts[i].id) : g < h

\* C7: buildDAG, given a subtask list whose dependsOn edges contain a cycle,
\* ends with the cycle-detected construction error instead of returning a DAG.
C7_CycleRejected ==
  (bpc = "done" /\ HasCycle(subtasks)) => bres = "cycle_detected"

\* C8: in every DAG returned by decompose each subtask id appears in exactly
\* one parallel group (once), and every id of its dependsOn list appears in a
\* strictly earlier group.
C8_ValidTopologicalPartition ==
  (entry = "decompose" /\ bpc = "done") => ValidPartition(subtasks, parallelGroups)

C8_Witness ==
  /\ entry = "decompose" /\ bpc = "done"
  /\ Len(parallelGroups) = 3 /\ Len(subtasks) >= 5
  /\ Len(parallelGroups[2]) >= 3

\* C30: for every task text and every configured maxSubtasks, the DAG returned
\* by decompose contains at most maxSubtasks subtasks.
C30_AtMostMaxSubtasks ==
  (entry = "decompose" /\ bpc = "done" /\ bres = "dag") => Len(subtasks) <= maxSubtasks

\* a text with a batch marker whose first number is the 10 of "10个"
BatchOfTen(t) == t.targets /\ t.num = 10

\* one scan subtask without dependencies, at most 10 process subtasks that
\* depend on the scan subtask only, one aggregate subtask that depends on all
\* process subtasks
ScanProcessAggregate(sts) ==
  /\ Len(sts) >= 2 /\ Len(sts) <= 12
  /\ sts[1].id = "scan_files" /\ sts[1].dependsOn = <<>>
  /\ \A i \in 2..(Len(sts) - 1) :
        /\ sts[i].id = ProcessIds[i - 1]
        /\ sts[i].dependsOn = <<"scan_files">>
  /\ sts[Len(sts)].id = "aggregate_results"
  /\ sts[Len(sts)].dependsOn = [i \in 1..(Len(sts) - 2) |-> sts[i + 1].id]

\* C31: for every task text that contains a batch marker and the count
\* "10个", decompose returns one scan subtask without dependencies, at most
\* 10 process subtasks each depending only on the scan subtask, and one
\* aggregate subtask depending on all process subtasks.
C31_BatchOfTenShape ==
  (entry = "decompose" /\ bpc = "done" /\ BatchOfTen(text))
     => ScanProcessAggregate(subtasks)

-----------------------------------------------------------------------------
(* Properties of redis-concurrency.js *)

Succeeded == {c \in Callers : cres[c] = "true"}

Refused == {c \in Callers : cres[c] = "false"}

AllResolved == \A c \in Callers : cpc[c] = "resolved"

\* the tier of a run whose callers all ask for the same one
Tier == cbranch[1]

\* C2: with limit N for the tier and distinct task ids, never more than N
\* concurrent acquireSlot calls return true, and once all calls have returned
\* exactly min(N, callers) returned true: with N+1 callers, N true and one
\* false. Both controllers.
C2_ExactlyLimitSucceed ==
  (scen = "acquire" /\ Tier \in Branches) =>
     /\ Cardinality(Succeeded) <= Limits[Tier]
     /\ AllResolved =>
          /\ Cardinality(Succeeded) = Min(Limits[Tier], ncall)
          /\ Cardinality(Refused) = ncall - Min(Limits[Tier], ncall)

C2_Witness ==
  /\ scen = "acquire" /\ ctrl = "redis" /\ Tier = "Standard"
  /\ ncall = Limits[Tier] + 1
  /\ AllResolved
  /\ Cardinality(Succeeded) = 4 /\ Cardinality(Refused) = 1

\* C10: with either controller, a waitForSlot call ends in one of two ways:
\* it returns after an acquireSlot that succeeded, or it throws the timeout
\* error once timeoutMs has passed without a slot.
C10_WaitForSlotContract ==
  scen = "wait" =>
     \A c \in Callers :
        /\ cpc[c] = "holding" => cres[c] = "true"
        /\ cpc[c] = "threw" =>
             (werr[c] = "timeout" /\ now - wstart[c] >= TimeoutTicks)

-----------------------------------------------------------------------------
(* Properties of executeSingle *)

\* C9: every admission slot acquired by executeSingle is released before
\* executeSingle returns, on every exit path: once a call has returned, the
\* slot set of its branch does not hold its task id.
C9_SlotReleasedOnReturn ==
  scen = "single" =>
     \A c \in Callers : cpc[c] = "returned" => ctask[c] \notin slots[cbranch[c]]

\* the calls of executeSingle on tier b that have acquired their slot and
\* have not released it (lines 966-1012)
PastAdmission(b) ==
  {c \in Callers : cbranch[c] = b /\ cpc[c] \in {"holding", "progress", "execute", "release"}}

\* C36: the number of tasks of a tier that are past admission in
\* executeSingle at the same time (slot acquired, not yet released) never
\* exceeds the limit of the tier, also when two tasks are submitted within
\* the same millisecond and receive the same task id.
C36_AdmittedWithinLimit ==
  scen = "single" => \A b \in Branches : Cardinality(PastAdmission(b)) <= Limits[b]

-----------------------------------------------------------------------------
(* Properties of the multi-agent execution *)

\* the subtasks whose current route is bound to agent w and that are routed
\* or running
ActiveOn(w) == {id \in DagIds : cur[id] = w /\ status[id] \in {"routed", "running", "rerunning"}}

FreeSlots(w) == agents[w].maxConcurrent - agents[w].currentLoad

Started(id) == status[id] \in {"running", "rerunning", "done", "failed"}

\* C1: after any sequence of route, reRoute, completion and failure events,
\* the currentLoad of every worker equals the number of routes bound to it
\* whose subtask is routed or running.
C1_LoadEqualsActiveRoutes ==
  mpc \in {"route", "exec", "returned"} =>
    \A w \in 1..Len(agents) : agents[w].currentLoad = Cardinality(ActiveOn(w))

\* the routes of the calls in flight that are bound to agent w
BatchOn(w) == {id \in Ids(rex) : routes[id].agentId = w}

\* C3: when a worker has exactly one free slot and several route calls are in
\* flight together (the calls routeSubtasks makes for one group), the routes
\* they return are never two bound to that worker. The worker had one free
\* slot when the calls were made iff its free slots plus the routes the calls
\* bound to it make one.
C3_OneFreeSlotOneRoute ==
  (mpc = "route" /\ rphase = "calls") =>
    \A w \in 1..Len(agents) :
       FreeSlots(w) + Cardinality(BatchOn(w)) = 1 => Cardinality(BatchOn(w)) <= 1

\* C4: no subtask starts executing before every subtask it depends on has a
\* successful result; a dependency that ended in failure unblocks nobody.
C4_DependenciesSucceededFirst ==
  mpc \in {"exec", "returned"} =>
    \A id \in DagIds : Started(id) =>
       \A d \in Range(SubtaskOf(dag, id).dependsOn) : results[d] = "ok"

\* C5: if some subtask has no successful result when the DAG execution ends,
\* the multi-agent call does not return success = true.
C5_IncompleteDagReportsFailure ==
  (mpc = "returned" /\ \E id \in DagIds : results[id] # "ok") => ~mout.success

\* C6: every DAG execution eventually ends, whatever the failure pattern,
\* given that every worker call returns or throws.
C6_ExecutionEnds == <>(mpc = "returned")

\* a three-group DAG ended after a first call threw, its retry on another
\* agent threw too, and a dependent subtask was never started
C6_Witness ==
  /\ mpc = "returned" /\ Len(dag.parallelGroups) = 3
  /\ \E id \in DagIds : status[id] = "failed" /\ cur[id] # routes[id].agentId
  /\ \E id \in DagIds : status[id] = "routed"

\* C37: when executeMultiAgent returns, every worker's currentLoad equals its
\* value before the call (the registries start without load): every load
\* reservation made for the subtasks of the DAG has been released, those of
\* the subtasks that failed, were re-routed or were never started included.
C37_LoadsRestored ==
  mpc = "returned" => \A w \in 1..Len(agents) : agents[w].currentLoad = 0

-----------------------------------------------------------------------------
(* Properties of the router *)

\* C11: at every reachable state every registered worker satisfies
\* 0 <= currentLoad <= maxConcurrent, whatever route, fallback routing,
\* reRoute and updateLoad events have happened.
C11_LoadWithinCapacity ==
  mpc \in {"route", "exec", "returned"} =>
    \A w \in 1..Len(agents) :
       agents[w].currentLoad >= 0 /\ agents[w].currentLoad <= agents[w].maxConcurrent

\* C12: the route reRoute returns for a failed route is never bound to the
\* worker of the failed route; a subtask that is running again runs on the
\* worker reRoute returned, its first route is the failed one.
C12_ReRouteAvoidsFailedWorker ==
  mpc \in {"exec", "returned"} =>
    \A id \in DagIds : status[id] = "rerunning" => cur[id] # routes[id].agentId

\* C13: when discovery found no candidate for a subtask and the retry with
\* the relaxed capability set found none either (the call is suspended in
\* fallbackRoute), route gives up: no worker is bound and no load changes.
C13_NoCandidateGivesUp ==
  [][(mpc = "route" /\ rphase = "calls" /\ rk > Len(rex) /\ rpend # <<>>)
       => (agents' = agents /\ routes' = routes)]_vars

\* C14: every route obtained through the fallback path, the relaxed
\* capability set or the default worker, carries isFallback = true.
C14_FallbackRouteIsMarked ==
  mpc \in {"route", "exec", "returned"} =>
    \A id \in DagIds : routes[id].via \in {"relaxed", "default"} => routes[id].isFallback

\* discover finds an agent that holds the capabilities of the subtask and
\* has a free slot, for every subtask of the DAG
CapableWorkerForAll ==
  \A i \in 1..Len(dag.subtasks) :
     discover(agents, dag.subtasks[i].requiredCapabilities, {}) # <<>>

AllRouted == mpc = "routed" /\ \A id \in DagIds : routes[id].agentId # 0

\* C40: for every acyclic DAG routeDAG terminates, and when a capable worker
\* with free capacity exists for every subtask at the call, it returns a
\* route for every subtask of the DAG and raises no deadlock error.
C40_RouteDAGRoutesAll ==
  /\ <>(mpc \in {"routed", "deadlock"})
  /\ CapableWorkerForAll => <>AllRouted

-----------------------------------------------------------------------------
(* Properties of the recovery of subtasks and of the health check *)

\* C15: when the execution of a subtask fails, the engine re-routes the
\* subtask to a different worker before anything else is done about the
\* failure: a subtask is not settled with a failed result on the worker of
\* its first route.
C15_FailedSubtaskReRouted ==
  mpc \in {"exec", "returned"} =>
    \A id \in DagIds :
       (status[id] = "done" /\ results[id] = "fail") => cur[id] # routes[id].agentId

\* C16: when the health check marks a worker offline while a subtask routed
\* to it is running, the engine treats the subtask as failed and re-routes it
\* to another worker: the subtask is never completed on that worker.
C16_OrphanedSubtaskReRouted ==
  mpc \in {"exec", "returned"} =>
    \A o \in orphaned : ~(status[o[1]] = "done" /\ cur[o[1]] = o[2])

\* C17: a registered worker whose silence has grown beyond the offline
\* threshold is, at the next run of the health check, marked offline with its
\* currentLoad set to 0.
C17_SilentWorkerMarkedOffline ==
  [][HealthCheck =>
       \A w \in 1..Len(agents) :
          (~Silent(sinceHeartbeat[w]) /\ Silent(sinceHeartbeat'[w]))
            => (agents'[w].status = "offline" /\ agents'[w].currentLoad = 0)]_vars

\* the health check has marked a silent agent offline, with no load, and has
\* left alone an agent that holds load and whose heartbeat is recent
C17_Witness ==
  \E w, v \in 1..Len(agents) :
     /\ Silent(sinceHeartbeat[w]) /\ agents[w].status = "offline"
     /\ agents[w].currentLoad = 0
     /\ ~Silent(sinceHeartbeat[v]) /\ sinceHeartbeat[v] > 0
     /\ agents[v].status # "offline" /\ agents[v].currentLoad > 0

-----------------------------------------------------------------------------
(* Properties of the RetryExecutor *)

\* the events of rxlog after the i-th up to the next invocation
NextInvocation(i) ==
  {k \in (i + 1)..Len(rxlog) :
     /\ rxlog[k].ev = "invoke"
     /\ \A j \in (i + 1)..(k - 1) : rxlog[j].ev # "invoke"}

C19_ResourceFailureDowngrades ==
  \A i \in 1..Len(rxlog) :
     (/\ rxlog[i].ev = "throw" /\ rxlog[i].type = "RESOURCE"
      /\ rxlog[i].tier \in DOMAIN downgradeChain)
       => \A k \in NextInvocation(i) : rxlog[k].tier = downgradeChain[rxlog[i].tier]

\* C20: under the default configuration, an operation that fails with an
\* error classified UNKNOWN is invoked again at least once, after a backoff
\* delay, before execute returns a failure.
C20_UnknownErrorRetried ==
  (rxop = "execute" /\ rxCfg = DefaultOptions /\ rxpc = "returned" /\ ~rxres.success) =>
    \A i \in 1..Len(rxlog) :
       (rxlog[i].ev = "throw" /\ rxlog[i].type = "UNKNOWN")
         => \E j \in (i + 1)..Len(rxlog) :
               rxlog[j].ev = "sleep" /\ \E k \in (j + 1)..Len(rxlog) : rxlog[k].ev = "invoke"

\* the tiers the operation was invoked under, in order
InvokedTiers ==
  LET inv == SelectSeq(rxlog, LAMBDA e : e.ev = "invoke")
  IN [i \in 1..Len(inv) |-> inv[i].tier]

\* the tiers reached from S by one more step of the downgrade chain
ChainStep(S) == S \cup {downgradeChain[t] : t \in S \cap DOMAIN downgradeChain}

\* the tiers of the downgrade chain below tier b
TiersBelow(b) ==
  IF b \in DOMAIN downgradeChain
  THEN ChainStep(ChainStep(ChainStep(ChainStep({downgradeChain[b]}))))
  ELSE {}

\* downgradeAndRetry runs or has run, and every invocation of the operation
\* so far failed with a RESOURCE error
DowngradeOfFailingOp ==
  /\ rxop \in {"downgradeAndRetry", "handleErrorByType"}
  /\ rxpc \in {"downgraded", "threw"} \/ (rxpc = "returned" /\ rxres.reason = "lowest tier")
  /\ \A i \in 1..Len(rxlog) : rxlog[i].ev = "throw" => rxlog[i].type = "RESOURCE"

DowngradeEnded == rxpc \in {"returned", "threw"}

\* what C21 says of every state of a downgrade of an operation that keeps failing
DowngradeBounded ==
  DowngradeOfFailingOp =>
    LET inv == InvokedTiers
    IN /\ \A i, j \in 1..Len(inv) : i # j => inv[i] # inv[j]
       /\ \A i \in 1..(Len(inv) - 1) :
             inv[i] \in DOMAIN downgradeChain /\ inv[i + 1] = downgradeChain[inv[i]]
       /\ Len(inv) >= 1 => Len(inv) <= Cardinality(TiersBelow(inv[1])) + 1
       /\ rxpc = "downgraded" =>
             /\ ctxBranch \notin Range(inv)
             /\ Len(inv) >= 1 => ctxBranch = downgradeChain[inv[Len(inv)]]
       /\ DowngradeEnded => ~rxres.success

\* C21: for every starting tier, a downgradeAndRetry of an operation that
\* fails with a RESOURCE error at every tier invokes the operation under each
\* tier below the starting one at most once, in the order of the downgrade
\* chain and never under a tier it has already tried, and it ends: it throws
\* the last error or returns a failure, never a success.
C21_DowngradeTerminates ==
  /\ []DowngradeBounded
  /\ (rxpc = "downgraded") ~> DowngradeEnded

\* from Deep the operation was invoked under Standard and under Simple, failed
\* with RESOURCE both times, and downgradeAndRetry threw
C21_Witness ==
  /\ rxop = "downgradeAndRetry" /\ rxpc = "threw"
  /\ rxlog = <<DowngradeEmitted("Deep", "Standard"),
               Invoked("Standard"), Threw("Standard", "RESOURCE"),
               DowngradeEmitted("Standard", "Simple"),
               Invoked("Simple"), Threw("Simple", "RESOURCE")>>

\* C22: when downgradeAndRetry is called at tier Deep, after the operation
\* failed there with resource exhaustion, and the operation succeeds under
\* Standard, the executor has emitted one downgrade from Deep to Standard,
\* invoked the operation once, under Standard, and returned a success marked
\* as downgraded from Deep to Standard.
C22_DeepDowngradesToStandard ==
  (/\ rxop = "downgradeAndRetry" /\ Len(rxlog) >= 2
   /\ rxlog[1] = DowngradeEmitted("Deep", "Standard")
   /\ rxlog[2] = Invoked("Standard")
   /\ Len(rxlog) >= 3 => rxlog[3].ev # "throw")
    => /\ rxlog = <<DowngradeEmitted("Deep", "Standard"), Invoked("Standard")>>
       /\ rxpc = "returned"
       /\ rxres.success /\ rxres.reason = "downgraded"
       /\ rxres.from = "Deep" /\ rxres.to = "Standard"

\* downgradeAndRetry was called at Deep and the operation returned under Standard
C22_Witness ==
  /\ rxop = "downgradeAndRetry" /\ rxpc = "returned" /\ rxres.success
  /\ fromBranch = "Deep" /\ ctxBranch = "Standard"
  /\ rxlog = <<DowngradeEmitted("Deep", "Standard"), Invoked("Standard")>>

\* the number of times the operation was invoked
Invocations == Cardinality({i \in 1..Len(rxlog) : rxlog[i].ev = "invoke"})

\* every invocation so far threw an error the executor retries
KeepsFailingRetryably ==
  /\ ~rxres.success
  /\ \A i \in 1..Len(rxlog) : rxlog[i].ev = "throw" => isRetryable(rxCfg, rxlog[i].type)

\* what C23 says of every state of execute
RetriesBounded ==
  rxop = "execute" =>
    /\ Invocations <= rxCfg.maxRetries + 1
    /\ (rxpc = "returned" /\ KeepsFailingRetryably) =>
          /\ Invocations = rxCfg.maxRetries + 1
          /\ rxres.reason = "exhausted" /\ rxres.attempts = rxCfg.maxRetries + 1

\* C23: execute always returns; it invokes the operation at most maxRetries
\* times after the first attempt, and for an operation that fails with a
\* retryable error every time it returns, after exactly that many
\* re-invocations, a failure that reports the retries as exhausted.
C23_ExecuteReturnsAfterMaxRetries ==
  /\ []RetriesBounded
  /\ (rxop = "execute" /\ rxpc = "try") ~> (rxpc = "returned")

\* the executor built without options returned 'exhausted' after six
\* invocations that all failed with TIMEOUT
C23_Witness ==
  /\ rxop = "execute" /\ rxCfg = DefaultOptions /\ rxpc = "returned"
  /\ rxres.reason = "exhausted" /\ Invocations = 6
  /\ \A i \in 1..Len(rxlog) : rxlog[i].ev = "throw" => rxlog[i].type = "TIMEOUT"

\* C24: the delay calculateBackoff returns, which execute then sleeps, is at
\* most maxDelay, whatever the attempt number, the error type and the jitter.
C24_BackoffWithinMaxDelay ==
  (rxop = "execute" /\ rxpc = "sleep") => delay <= rxCfg.maxDelay

\* C25: a resumeFromCheckpoint whose operation fails leaves every checkpoint
\* as it was, data and attempt counter included, however many times this
\* happens; and a step of resumeFromCheckpoint removes a checkpoint only as
\* the return of a resume of that task id whose operation succeeded.
C25_FailedResumeKeepsCheckpoint ==
  [][/\ \A c \in Resumers : ResumeThrows(c) => checkpoints' = checkpoints
     /\ \A t \in CkptTasks :
          (/\ checkpoints[t] # NoCheckpoint /\ checkpoints'[t] = NoCheckpoint
           /\ ~ClearCheckpoint(t))
            => \E c \in Resumers : ResumeReturns(c) /\ rstask[c] = t /\ rsres'[c].success]_vars

\* every caller's resume of task-001 has failed and the checkpoint, saved
\* twice, is still stored
C25_Witness ==
  /\ rspc = [c \in Resumers |-> "returned"]
  /\ \A c \in Resumers : rsres[c].reason = "resume failed" /\ rstask[c] = "task-001"
  /\ checkpoints["task-001"] = [data |-> "step-2", attempt |-> 2]

-----------------------------------------------------------------------------
(* Properties of the cancellation of tasks *)

MonTerminal == {"completed", "failed", "cancelled"}

\* C26: cancelTask on a task that is completed, failed or cancelled changes
\* nothing: the status and the end time of the task stay as they are and no
\* further cancellation event is emitted.
C26_CancelTerminalIsNoOp ==
  [][\A t \in MonTasks :
       (MonCancelTask(t) /\ mstatus[t] \in MonTerminal)
         => /\ mstatus'[t] = mstatus[t]
            /\ mend'[t] = mend[t]
            /\ mcancels'[t] = mcancels[t]]_vars

-----------------------------------------------------------------------------
(* Properties of the confirmation of a task *)

\* the wait executeSingle makes (sendTextConfirm) is on and no user message
\* has arrived
WaitingUnanswered ==
  gkind = "waitForReply" /\ gpc \in {"check", "sleep"} /\ ~greply

\* what C27 says of every state of that wait
TimeoutMeansProceed ==
  (gkind = "waitForReply" /\ ~greply) =>
    /\ gres # "timeout"
    /\ gpc = "resolved" => (gres = "confirm" /\ gnow - gstart > GateTimeoutSeconds)
    /\ (gpc = "done" /\ gres # "send failed") => snext = "waitForSlot"

-----------------------------------------------------------------------------
(* Properties of executeSingle with a forced tier *)

\* C29: a call of executeSingle with a forced tier that is not one of the
\* five tiers is rejected before it reserves an admission slot and before
\* the execution step: its task id is in no slot set at any time, and the
\* call never stands at or after the execution.
C29_UnknownTierRejectedAtOnce ==
  \A c \in Callers :
     (scen = "single" /\ cbranch[c] \notin Branches)
       => /\ \A b \in AllBranches : ctask[c] \notin slots[b]
          /\ cpc[c] \notin {"holding", "progress", "execute", "release", "record"}

-----------------------------------------------------------------------------
(* Properties of the command queue *)

QTerminal == {"completed", "failed", "cancelled"}

\* a task that waits in the queue is eventually started and ends
QueuedTaskEnds ==
  \A t \in QTasks : (qstatus[t] = "pending") ~> (qstatus[t] \in QTerminal)

\* the status a task has when its 'completed' notification is awaited is the
\* status it has when processQueue goes on
NotificationKeepsResult ==
  [][\A a \in Acts : (apc[a] = "completed" /\ apc'[a] # "completed")
                        => qstatus'[atask[a]] = qstatus[atask[a]]]_vars

\* C28: every task accepted into the command queue is eventually started
\* and reaches a terminal status, and the notification of its completion
\* does not change its status, whether the notification handler returns
\* or throws.
C28_NotificationFailureHarmless == QueuedTaskEnds /\ NotificationKeepsResult

\* the pending queue is in the order of non-increasing priority and, among
\* equal priorities, of creation
QueueOrdered ==
  \A i, j \in 1..Len(qqueue) :
     i < j => \/ qprio[qqueue[i]] > qprio[qqueue[j]]
              \/ /\ qprio[qqueue[i]] = qprio[qqueue[j]]
                 /\ qcreated[qqueue[i]] < qcreated[qqueue[j]]

\* C34: at every reachable state the pending queue of CommandQueue is ordered
\* by non-increasing priority, first-in-first-out among equal priorities, also
\* after failed tasks have been put back for retry.
C34_QueueOrderedByPriority == QueueOrdered

\* the calls of the task handler that have not settled
HandlersInProgress == Cardinality({a \in Acts : apc[a] = "handler"}) + qstray

\* C38: at most one task-handler invocation of a CommandQueue is in progress
\* at any time, under every interleaving of enqueue, resume, retries and
\* task timeouts.
C38_OneHandlerAtATime == HandlersInProgress <= 1

\* C39: once cancelTask has returned true for a task, the status of the task
\* stays cancelled: it is never set to completed or failed afterwards, and the
\* task is never put back into the queue.
C39_CancelledStaysCancelled ==
  [][\A t \in QTasks :
       qstatus[t] = "cancelled"
         => (qstatus'[t] = "cancelled" /\ t \notin Range(qqueue'))]_vars

-----------------------------------------------------------------------------
(* Properties of the nesting of multi-agent executions *)

\* C35: executing a subtask of a DAG never triggers a further decomposition
\* and multi-agent execution of the subtask's own text, so that the
\* multi-agent execution of a task ends after a bounded number of subtask
\* executions: no executeMultiAgent call is in progress inside another one.
C35_SubtaskNeverDecomposes == Len(xstack) <= 1

-----------------------------------------------------------------------------
(* Properties of the classification *)

DeepOrSequence(t) == t.deep \/ t.orchestrator

BatchMarked(t) == t.batch \/ t.count

\* C32: a text containing a deep-analysis or sequence marker is never
\* classified Batch or Simple, and a text containing a batch marker is never
\* classified Simple.
C32_MarkerPriority ==
  fpc \in {"returned", "done"} =>
    /\ DeepOrSequence(ftext) => fres.branch \notin {"Batch", "Simple"}
    /\ BatchMarked(ftext) => fres.branch # "Simple"

-----------------------------------------------------------------------------
(* Properties of the aggregation *)

\* C33: for the concat and smart_merge strategies and every non-empty results
\* list, aggregating the list and then aggregating the singleton list that
\* holds the final result yields the same payload.
C33_AggregationIdempotent ==
  agpc = "done" => (agSecond.success /\ agSecond.result = agFirst.result)

C33_Witness ==
  /\ agpc = "done" /\ agStrategy = "smart_merge"
  /\ agFirst.count = 2 /\ agFirst.source = "smart_merge"
  /\ agSecond.source = "single" /\ agSecond.result = agFirst.result

-----------------------------------------------------------------------------
(* Initial states and specifications *)

\* the components that are not part of a specification, as constructed
ExtIdle == CkptIdle /\ MonIdle /\ GateIdle /\ QueueIdle /\ ClassIdle /\ AggIdle /\ NestIdle

\* decompose is called on a text, or buildDAG on a list of subtasks
InitBuild ==
  /\ graph = <<>> /\ inDegree = <<>> /\ queue = <<>> /\ parallelGroups = <<>>
  /\ bres = "none"
  /\ \/ /\ entry = "decompose"
        /\ maxSubtasks \in {configuredMaxSubtasks(o) : o \in MaxSubtasksOptions}
        /\ text \in Texts
        /\ subtasks = <<>>
        /\ bpc = "decompose"
     \/ /\ entry = "buildDAG"
        /\ maxSubtasks = DefaultMaxSubtasks
        /\ text = NoText
        /\ \E f \in [NodeSet -> SUBSET NodeSet] :
             subtasks = [i \in 1..MaxNodes |->
                           Subtask(NodeIds[i], DepSeq(f[NodeIds[i]]), <<"read">>)]
        /\ bpc = "buildDAG"
  /\ SlotIdle /\ MAIdle /\ RetryIdle /\ ExtIdle

\* callers of acquireSlot or of waitForSlot, all on one tier
InitSlot ==
  /\ ctrl \in {"redis", "local"}
  /\ scen \in {"acquire", "wait"}
  /\ \E tier \in AllBranches :
       LET n == IF scen = "acquire" THEN Min(RedisLimit(tier) + 1, MaxCallers)
                ELSE MaxWaiters
       IN /\ cbranch = [c \in 1..n |-> tier]
          /\ InitCallers(n, IF scen = "acquire" THEN "idle" ELSE "waitForSlot")
  /\ BuildIdle /\ MAIdle /\ RetryIdle /\ ExtIdle

\* initConcurrency, lines 641-656: the Redis controller when a Redis
\* configuration is given, else the in-memory one
InitSingle ==
  /\ ctrl \in {"redis", "local"}
  /\ scen = "single"
  /\ cbranch \in [1..MaxTasks -> AllBranches]
  /\ InitCallers(MaxTasks, "classify")
  /\ BuildIdle /\ MAIdle /\ RetryIdle /\ ExtIdle

\* executeMultiAgent, lines 719-729, on a registry that holds no load
InitMA ==
  /\ agents \in Registries
  /\ sinceHeartbeat = [w \in 1..Len(agents) |-> 0] /\ orphaned = {}
  /\ retryOpt \in BOOLEAN
  /\ \E t \in MATexts :
       /\ dag = decompose(t)
       /\ routes = [id \in Ids(decompose(t).subtasks) |-> NoRoute]
       /\ status = [id \in Ids(decompose(t).subtasks) |-> "pending"]
       /\ cur = [id \in Ids(decompose(t).subtasks) |-> 0]
       /\ results = [id \in Ids(decompose(t).subtasks) |-> "none"]
  /\ mpc = "route" /\ ri = 1 /\ rcompleted = {}
  /\ rphase = "idle" /\ rex = <<>> /\ rk = 0 /\ rpend = <<>>
  /\ gi = 1 /\ gphase = "idle" /\ completed = {} /\ mout = NotReturned
  /\ BuildIdle /\ SlotIdle /\ RetryIdle /\ ExtIdle

\* an executor as the constructor leaves it, lines 1895-1914
InitRetry ==
  /\ rxCfg \in RetryConfigs
  /\ rxop = "none" /\ rxpc = "idle" /\ ctxBranch = "none" /\ fromBranch = "none"
  /\ attempt = 0 /\ lastErrorType = "none" /\ multiplier = 1 /\ delay = 0
  /\ rxlog = <<>> /\ rxres = NoResult
  /\ BuildIdle /\ SlotIdle /\ MAIdle /\ ExtIdle

SpecBuild == InitBuild /\ [][NextBuild]_vars

SpecSlot == InitSlot /\ [][NextSlot]_vars

SpecSingle == InitSingle /\ [][NextSingle]_vars

\* a scheduler on which execute has not been called
InitNest == BuildIdle /\ SlotIdle /\ MAIdle /\ RetryIdle /\ ExtIdle

SpecNest == InitNest /\ [][NextNest]_vars

\* routeDAG, lines 291-294, called with an acyclic DAG of MaxNodes subtasks
\* or with the DAG of a text, on a registry that holds no load
InitRouteDAG ==
  /\ agents \in Registries
  /\ sinceHeartbeat = [w \in 1..Len(agents) |-> 0] /\ orphaned = {}
  /\ retryOpt = TRUE
  /\ \E d \in {buildDAG([i \in 1..MaxNodes |->
                          Subtask(NodeIds[i], DepSeq(f[NodeIds[i]]), <<"read">>)]) :
                   f \in [NodeSet -> SUBSET NodeSet]}
                \cup {decompose(t) : t \in MATexts} :
       /\ ~HasCycle(d.subtasks)
       /\ dag = d
       /\ routes = [id \in Ids(d.subtasks) |-> NoRoute]
       /\ status = [id \in Ids(d.subtasks) |-> "pending"]
       /\ cur = [id \in Ids(d.subtasks) |-> 0]
       /\ results = [id \in Ids(d.subtasks) |-> "none"]
  /\ mpc = "routeDAG" /\ ri = 1 /\ rcompleted = {}
  /\ rphase = "idle" /\ rex = <<>> /\ rk = 0 /\ rpend = <<>>
  /\ gi = 1 /\ gphase = "idle" /\ completed = {} /\ mout = NotReturned
  /\ BuildIdle /\ SlotIdle /\ RetryIdle /\ ExtIdle

SpecRouteDAG == InitRouteDAG /\ [][NextRouteDAG]_vars

\* every call of route returns or throws
FairSpecRouteDAG == SpecRouteDAG /\ WF_vars(NextRouteDAG)

\* MaxAdmitted calls of executeSingle for one tier whose limit is below their
\* number; calls that reach line 965 within one millisecond share their id
InitAdmission ==
  /\ ctrl \in {"redis", "local"}
  /\ scen = "single"
  /\ \E tier \in {b \in Branches : Limits[b] < MaxAdmitted} :
       cbranch = [c \in 1..MaxAdmitted |-> tier]
  /\ ncall = MaxAdmitted
  /\ ctask \in TaskIds(MaxAdmitted)
  /\ cout = [c \in 1..MaxAdmitted |-> "none"]
  /\ slots = [b \in AllBranches |-> {}]
  /\ cpc = [c \in 1..MaxAdmitted |-> "classify"]
  /\ cres = [c \in 1..MaxAdmitted |-> "none"]
  /\ now = 0
  /\ wstart = [c \in 1..MaxAdmitted |-> 0]
  /\ wake = [c \in 1..MaxAdmitted |-> 0]
  /\ werr = [c \in 1..MaxAdmitted |-> "none"]
  /\ BuildIdle /\ MAIdle /\ RetryIdle /\ ExtIdle

SpecAdmission == InitAdmission /\ [][NextAdmission]_vars

SpecMA == InitMA /\ [][NextMA]_vars

\* a registry after setupDefaultAgents, no execution in progress
InitRegistry ==
  /\ agents \in Registries
  /\ sinceHeartbeat = [w \in 1..Len(agents) |-> 0] /\ orphaned = {}
  /\ dag = [subtasks |-> <<>>, parallelGroups |-> <<>>, totalSubtasks |-> 0]
  /\ retryOpt = TRUE /\ mpc = "idle" /\ ri = 0
  /\ rphase = "idle" /\ rex = <<>> /\ rk = 0 /\ rpend = <<>>
  /\ rcompleted = {} /\ routes = <<>> /\ gi = 0 /\ gphase = "idle" /\ status = <<>>
  /\ cur = <<>> /\ results = <<>> /\ completed = {} /\ mout = NotReturned
  /\ BuildIdle /\ SlotIdle /\ RetryIdle /\ ExtIdle

SpecRegistry == InitRegistry /\ [][NextRegistry]_vars

\* the engine with the registry's health check running
SpecHealth == InitMA /\ [][NextHealth]_vars

SpecRetry == InitRetry /\ [][NextRetry]_vars

SpecRecover == InitRetry /\ [][NextRecover]_vars

\* every worker call returns or throws, and the engine's own steps are taken
FairSpecMA == SpecMA /\ WF_vars(EngineStep)

\* checkpoints are saved, cleared and resumed from
InitCheckpoint == BuildIdle /\ SlotIdle /\ MAIdle /\ RetryIdle /\ ExtIdle

\* a confirmation is asked for
InitGate == BuildIdle /\ SlotIdle /\ MAIdle /\ RetryIdle /\ ExtIdle

SpecGate == InitGate /\ [][NextGate]_vars

\* time passes, timers fire and the polling code runs
FairSpecGate ==
  SpecGate /\ WF_vars(GateTick) /\ WF_vars(GateTimer) /\ WF_vars(WaitForReplyCheck)
           /\ WF_vars(ConfirmAndWaitCheck) /\ WF_vars(SingleAfterConfirm)

\* the monitor is constructed; tasks are registered and reported on
InitMonitor == BuildIdle /\ SlotIdle /\ MAIdle /\ RetryIdle /\ ExtIdle

SpecMonitor == InitMonitor /\ [][NextMonitor]_vars

SpecCheckpoint == InitCheckpoint /\ [][NextCheckpoint]_vars

\* classifyTask is called on a text
InitClassify ==
  /\ ftext \in ClassTexts /\ fpc = "classifyTask" /\ fres = NoVerdict
  /\ BuildIdle /\ SlotIdle /\ MAIdle /\ RetryIdle
  /\ CkptIdle /\ MonIdle /\ GateIdle /\ QueueIdle /\ AggIdle /\ NestIdle

SpecClassify == InitClassify /\ [][NextClassify]_vars

\* aggregate is called on a list of results
InitAggregate ==
  /\ agStrategy \in AggStrategies /\ agResults \in AggLists /\ agpc = "aggregate"
  /\ agFirst = NoAggregate /\ agSecond = NoAggregate
  /\ BuildIdle /\ SlotIdle /\ MAIdle /\ RetryIdle
  /\ CkptIdle /\ MonIdle /\ GateIdle /\ QueueIdle /\ ClassIdle /\ NestIdle

SpecAggregate == InitAggregate /\ [][NextAggregate]_vars

\* the queue is constructed; a handler of notifications may be set
InitQueue == BuildIdle /\ SlotIdle /\ MAIdle /\ RetryIdle /\ ExtIdle

SpecQueue == InitQueue /\ [][NextQueue]_vars

SpecQueueOps == InitQueue /\ [][NextQueueOps]_vars

\* notifications and task handlers settle and delays end
FairSpecQueue == SpecQueue /\ WF_vars(QueueStep)

\* the operation handed to the executor returns or throws, and a sleep ends
FairSpecRetry == SpecRetry /\ WF_vars(NextRetry)

FairSpecRecover == SpecRecover /\ WF_vars(NextRecover)

=============================================================================
